---- MODULE Spec2Model ----
(***************************************************************************)
(* A model of fo_data: the virtual file registry of a FOnline client.      *)
(*                                                                         *)
(*   Spec       FoRegistry::init building a registry afresh: the local     *)
(*              walk, the parallel crawl of the archives, the two          *)
(*              reconcile_paths passes, the directory index.               *)
(*   SpecDirs   Dirs::register, FoRegistry::is_dir and FoRegistry::ls_dir. *)
(*   SpecCache  the cache file: FoRegistryCache written and read back, and *)
(*              FoRegistry::recover_from_cache deciding on it.             *)
(*   SpecInit   FoRegistry::init on a client that an earlier init left a   *)
(*              cache file in: recovery, then the build when it fails.     *)
(*   SpecRetriever  threads calling file_by_path and file_by_info on one   *)
(*              FoRetriever, step by step.                                 *)
(*   SpecResolve  the same steps under weak fairness of each thread, with  *)
(*              archive files and the local file changing on disk.         *)
(*   SpecShadowed  crawler::shadowed_files on the declared archives.       *)
(*                                                                         *)
(* A path is a sequence of characters, each a one-character string; a name *)
(* that plays no part in splitting ("c.txt") stands as one element.        *)
(***************************************************************************)
EXTENDS Integers, Sequences, FiniteSets, TLC

VARIABLES
    zips,         \* disk: the entry names of each archive file, in declared order
    localTree,    \* disk: the files under data/, relative paths in walk order
    pc,           \* position of FoRegistry::init, or of the shadowed_files tool
    task,         \* per archive: the crawl task is "idle", "running" or "done"
    finish_order, \* history: the archives in the order their crawl tasks finished
    batches,      \* the collected Vec<Vec<(u32, FileInfo)>>, one slot per archive
    local_paths,  \* the local batch, gathered first
    queue,        \* the pairs the running reconcile_paths call has still to process
    files,        \* Files.inner: key -> FileInfo
    dirs,         \* Dirs.map: parent -> (child -> metadata)
    result,       \* what init returned
    registered,   \* SpecDirs, history: the paths given to Dirs::register, in call order
    cache_file,   \* disk: fo_data.bin, with its bytes and modification time
    datafiles_cfg,\* disk: DataFiles.cfg, with its modification time
    written,      \* history: the registry the cache file was written from
    new_cache_metadata, \* the metadata init computed from the local tree of now
    rpc,          \* position of FoRegistry::recover_from_cache
    cache_changed,\* the cache file's modification time, read when it was opened
    rpos,         \* the number of words the deserializer has read
    cache_header, \* the FoRegistryCacheHeader read
    cache_data,   \* the second element of the FoRegistryCache read
    recovered,    \* what recover_from_cache returned
    archive_changed, \* disk: the modification time of each archive file, in declared order
    changes,      \* the number of changes on disk since the earlier init, or since
                  \* the retriever was made
    thread,       \* SpecRetriever, per thread: its position in file_by_path / file_by_info,
                  \* the request, the FileInfo, what the last call returned
    slots,        \* FoRetriever.archives: per archive, the handle or none
    lock,         \* per Mutex of FoRetriever.archives: the thread that holds it, or 0
    archive_state,\* disk: per archive file, "ok", "missing" or "not_zip"
    opens,        \* history, per archive: the opens that succeeded
    calls,        \* history: the calls made on the retriever
    self_data,    \* FoRetriever.data: the registry the retriever holds
    local_state   \* disk: the local file the retriever serves is "ok" or "missing"

buildVars ==
    <<zips, localTree, pc, task, finish_order, batches, local_paths, queue, files, dirs, result>>

cacheVars ==
    <<cache_file, datafiles_cfg, written, new_cache_metadata, rpc, cache_changed, rpos,
      cache_header, cache_data, recovered>>

retrVars == <<thread, slots, lock, archive_state, opens, calls, self_data, local_state>>

\* What Spec leaves alone.
nonBuildVars == <<registered, cacheVars, archive_changed, changes, retrVars>>

\* What SpecCache leaves alone.
nonCacheVars == <<buildVars, registered, archive_changed, changes, retrVars>>

\* What SpecDirs leaves alone.
nonDirsVars ==
    <<zips, localTree, pc, task, finish_order, batches, local_paths, queue, files, result,
      cacheVars, archive_changed, changes, retrVars>>

\* What SpecRetriever leaves alone.
nonRetrVars == <<buildVars, registered, cacheVars, archive_changed>>

vars == <<buildVars, registered, cacheVars, archive_changed, changes, retrVars>>

----------------------------------------------------------------------------
(* Bounds of the model. *)

MaxArchives == 2
MaxFiles == 3
HashMod == 4
MaxRegistered == 4
MaxTime == 2
MaxChanges == 1
MaxThreads == 3
MaxCalls == 3
MaxResolvers == 2
MaxResolves == 2

----------------------------------------------------------------------------
(* Maps with a growing domain. *)

EmptyMap == [x \in {} |-> x]

MapPut(m, k, v) == [x \in (DOMAIN m) \cup {k} |-> IF x = k THEN v ELSE m[x]]

MapRemove(m, k) == [x \in (DOMAIN m) \ {k} |-> m[x]]

----------------------------------------------------------------------------
(* Paths, canonical form and the key. *)

\* The entry names an archive may hold; the last one is a directory entry.
RawNames ==
    { <<"a", "/", "b">>, <<"A", "\\", "b">>, <<"b", "/", "a">>, <<"x">>, <<"a", "/">> }

\* The relative paths a regular file under data/ may have.
LocalNames ==
    { <<"a", "/", "b">>, <<"A", "\\", "b">>, <<"b", "/", "a">>, <<"x">> }

ConventionalChar(c) ==
    CASE c = "A" -> "a"
      [] c = "B" -> "b"
      [] c = "X" -> "x"
      [] c = "\\" -> "/"
      [] OTHER -> c

MakePathConventional(path) == [i \in 1..Len(path) |-> ConventionalChar(path[i])]

CharCode(c) ==
    CASE c = "a" -> 1
      [] c = "b" -> 2
      [] c = "/" -> 3
      [] c = "x" -> 5
      [] c = "A" -> 6
      [] c = "B" -> 7
      [] c = "\\" -> 8
      [] c = "X" -> 9
      [] OTHER -> 10

RECURSIVE SumCodes(_)
SumCodes(bytes) ==
    IF Len(bytes) = 0 THEN 0 ELSE CharCode(Head(bytes)) + SumCodes(Tail(bytes))

\* A 32-bit checksum of the bytes, narrowed to HashMod keys: distinct paths may
\* share a key (here: the same characters in another order).
Hash(bytes) == SumCodes(bytes) % HashMod

NewInArchive(conventional_path, archive_index, original_path, compressed_size) ==
    [ location |-> [ kind |-> "Archive", index |-> archive_index,
                     original_path |-> original_path,
                     compressed_size |-> compressed_size ],
      conventional_path |-> conventional_path ]

NewLocal(conventional_path, original_path) ==
    [ location |-> [ kind |-> "Local", original_path |-> original_path ],
      conventional_path |-> conventional_path ]

\* Mutant of FileInfoHash: the key is taken from the name as the source has it.
FileInfoHashOfOriginal(info) ==
    Hash(IF info.location.kind = "Archive" THEN info.location.original_path
         ELSE SubSeq(info.location.original_path, 3, Len(info.location.original_path)))

\* FileInfo::hash
FileInfoHash(info) == Hash(info.conventional_path)

----------------------------------------------------------------------------
(* The crawlers. *)

IsDirEntry(name) == Len(name) > 0 /\ name[Len(name)] \in {"/", "\\"}

\* The compressed size the archive's directory records for an entry.
EntryCompressedSize(name) == Len(name)

RECURSIVE CrawlArchive(_, _)
CrawlArchive(archive_index, entries) ==
    IF Len(entries) = 0 THEN <<>>
    ELSE LET entry_name == Head(entries)
             rest == CrawlArchive(archive_index, Tail(entries))
         IN  IF IsDirEntry(entry_name) THEN rest
             ELSE LET file_info == NewInArchive(MakePathConventional(entry_name),
                                                archive_index, entry_name,
                                                EntryCompressedSize(entry_name))
                  IN  <<[hash |-> FileInfoHash(file_info), info |-> file_info]>> \o rest

\* The canonicalized data folder every local path starts with.
DataRoot == <<"data", "/">>

\* Mutant of GatherLocalPaths: the location keeps the path relative to the root.
RECURSIVE GatherLocalPathsRelative(_)
GatherLocalPathsRelative(tree) ==
    IF Len(tree) = 0 THEN <<>>
    ELSE LET stripped == Head(tree)
             file_info == NewLocal(MakePathConventional(stripped), stripped)
         IN  <<[hash |-> FileInfoHash(file_info), info |-> file_info]>>
                 \o GatherLocalPathsRelative(Tail(tree))

RECURSIVE GatherLocalPaths(_)
GatherLocalPaths(tree) ==
    IF Len(tree) = 0 THEN <<>>
    ELSE LET stripped == Head(tree)
             file_info == NewLocal(MakePathConventional(stripped), DataRoot \o stripped)
         IN  <<[hash |-> FileInfoHash(file_info), info |-> file_info]>>
                 \o GatherLocalPaths(Tail(tree))

\* Mutant of Collect: the batches are kept in the order the tasks finished.
CollectInCompletionOrder(all, finished, i, batch) == [all EXCEPT ![finished + 1] = batch]

\* par_iter().enumerate().map(..).collect(): the batch of archive i lands in slot i.
Collect(all, finished, i, batch) == [all EXCEPT ![i] = batch]

RECURSIVE Flatten(_)
Flatten(vecs) == IF Len(vecs) = 0 THEN <<>> ELSE Head(vecs) \o Flatten(Tail(vecs))

----------------------------------------------------------------------------
(* Files::reconcile_paths. *)

NoError == [kind |-> "None"]

\* FoRegistry::init's callback for the archive pass: |_, _, _| Ok(()).
OnShadowArchives(file, old, new) == NoError

\* Mutant of OnShadowLocal: a local file over a local file is accepted.
OnShadowLocalAccepts(file, old, new) == NoError

\* FoRegistry::init's callback for the local pass.
OnShadowLocal(file, old, new) ==
    IF old.kind = "Local"
    THEN [kind |-> "LocalRewrite", file |-> file, old |-> old, new |-> new]
    ELSE NoError

\* shadowed_files' callback, what it returns: Ok(()).
OnShadowReport(file, old, new) == NoError

OnShadow(callback, file, old, new) ==
    CASE callback = "archives" -> OnShadowArchives(file, old, new)
      [] callback = "local" -> OnShadowLocal(file, old, new)
      [] callback = "report" -> OnShadowReport(file, old, new)

\* Mutant of ReconcileStep: an accepted shadow leaves the old location in place.
ReconcileStepKeepsOld(inner, hash, file_info, callback) ==
    IF hash \notin DOMAIN inner
    THEN [inner |-> MapPut(inner, hash, file_info), err |-> NoError]
    ELSE LET old == inner[hash] IN
         IF old.conventional_path # file_info.conventional_path
         THEN [ inner |-> MapRemove(inner, hash),
                err |-> [kind |-> "Conflict", hash |-> hash, old |-> old,
                         new |-> file_info] ]
         ELSE LET shadow == OnShadow(callback, file_info.conventional_path,
                                     old.location, file_info.location)
              IN  [inner |-> inner, err |-> shadow]

\* Mutant of ReconcileStep: the callback is asked before the paths are compared.
ReconcileStepShadowFirst(inner, hash, file_info, callback) ==
    IF hash \notin DOMAIN inner
    THEN [inner |-> MapPut(inner, hash, file_info), err |-> NoError]
    ELSE LET old == inner[hash]
             shadow == OnShadow(callback, file_info.conventional_path,
                                old.location, file_info.location)
         IN  IF shadow.kind # "None"
             THEN [inner |-> inner, err |-> shadow]
             ELSE IF old.conventional_path # file_info.conventional_path
                  THEN [ inner |-> MapRemove(inner, hash),
                         err |-> [kind |-> "Conflict", hash |-> hash, old |-> old,
                                  new |-> file_info] ]
                  ELSE [ inner |-> [inner EXCEPT ![hash].location = file_info.location],
                         err |-> NoError ]

\* Mutant of ReconcileStep: the location is replaced before the callback is
\* asked, so the callback is given the new location as the old one.
ReconcileStepShadowSeesNew(inner, hash, file_info, callback) ==
    IF hash \notin DOMAIN inner
    THEN [inner |-> MapPut(inner, hash, file_info), err |-> NoError]
    ELSE LET old == inner[hash] IN
         IF old.conventional_path # file_info.conventional_path
         THEN [ inner |-> MapRemove(inner, hash),
                err |-> [kind |-> "Conflict", hash |-> hash, old |-> old,
                         new |-> file_info] ]
         ELSE LET shadow == OnShadow(callback, file_info.conventional_path,
                                     file_info.location, file_info.location)
              IN  IF shadow.kind # "None"
                  THEN [inner |-> inner, err |-> shadow]
                  ELSE [ inner |-> [inner EXCEPT ![hash].location = file_info.location],
                         err |-> NoError ]

\* One turn of the loop of reconcile_paths: the registry after the pair, and the
\* error the call returns with there.
ReconcileStep(inner, hash, file_info, callback) ==
    IF hash \notin DOMAIN inner
    THEN [inner |-> MapPut(inner, hash, file_info), err |-> NoError]
    ELSE LET old == inner[hash] IN
         IF old.conventional_path # file_info.conventional_path
         THEN [ inner |-> MapRemove(inner, hash),
                err |-> [kind |-> "Conflict", hash |-> hash, old |-> old,
                         new |-> file_info] ]
         ELSE LET shadow == OnShadow(callback, file_info.conventional_path,
                                     old.location, file_info.location)
              IN  IF shadow.kind # "None"
                  THEN [inner |-> inner, err |-> shadow]
                  ELSE [ inner |-> [inner EXCEPT ![hash].location = file_info.location],
                         err |-> NoError ]

RECURSIVE ReconcilePaths(_, _, _)
ReconcilePaths(inner, paths, callback) ==
    IF Len(paths) = 0 THEN [inner |-> inner, err |-> NoError]
    ELSE LET step == ReconcileStep(inner, Head(paths).hash, Head(paths).info, callback)
         IN  IF step.err.kind # "None" THEN step
             ELSE ReconcilePaths(step.inner, Tail(paths), callback)

----------------------------------------------------------------------------
(* crawler::shadowed_files. *)

\* Mutant of Reported: an override within one archive is not reported.
ReportedAcrossArchives(archives, shadowed, name, old, new) ==
    IF old.kind = "Archive" /\ new.kind = "Archive" /\ old.index # new.index
    THEN Append(shadowed, [ name |-> name,
                            size |-> new.compressed_size,
                            first_source |-> archives[old.index + 1].path,
                            second_source |-> archives[new.index + 1].path ])
    ELSE shadowed

\* shadowed_files' callback, what it pushes: a ShadowedFile when both locations
\* are in archives.
Reported(archives, shadowed, name, old, new) ==
    IF old.kind = "Archive" /\ new.kind = "Archive"
    THEN Append(shadowed, [ name |-> name,
                            size |-> new.compressed_size,
                            first_source |-> archives[old.index + 1].path,
                            second_source |-> archives[new.index + 1].path ])
    ELSE shadowed

\* reconcile_paths calls on_shadow for a pair whose key is occupied by an entry
\* of the same conventional path.
Shadows(inner, hash, file_info) ==
    /\ hash \in DOMAIN inner
    /\ inner[hash].conventional_path = file_info.conventional_path

\* reconcile_paths under shadowed_files' callback: the error it returns with, or
\* the events pushed by the time it returns.
RECURSIVE ReportPass(_, _, _, _)
ReportPass(archives, inner, paths, shadowed) ==
    IF Len(paths) = 0 THEN [err |-> NoError, shadowed |-> shadowed]
    ELSE LET step == ReconcileStep(inner, Head(paths).hash, Head(paths).info, "report")
         IN  IF step.err.kind # "None" THEN [err |-> step.err, shadowed |-> shadowed]
             ELSE ReportPass(archives, step.inner, Tail(paths),
                             IF Shadows(inner, Head(paths).hash, Head(paths).info)
                             THEN Reported(archives, shadowed,
                                           Head(paths).info.conventional_path,
                                           inner[Head(paths).hash].location,
                                           Head(paths).info.location)
                             ELSE shadowed)

\* shadowed_files: Err with the error of reconcile_paths, else Ok with the events.
ShadowedFiles(archives, disk) ==
    LET pass == ReportPass(archives, EmptyMap,
                           Flatten([i \in 1..Len(archives) |->
                                       CrawlArchive(i - 1, disk[archives[i].path])]),
                           <<>>)
    IN  IF pass.err.kind # "None"
        THEN [kind |-> "Err", cause |-> pass.err]
        ELSE [kind |-> "Ok", shadowed |-> pass.shadowed]

----------------------------------------------------------------------------
(* Dirs and the queries on it. *)

RECURSIVE TrimEndSlashes(_)
TrimEndSlashes(path) ==
    IF Len(path) > 0 /\ path[Len(path)] = "/"
    THEN TrimEndSlashes(SubSeq(path, 1, Len(path) - 1))
    ELSE path

LastSlash(path) ==
    LET at == {i \in 1..Len(path) : path[i] = "/"}
    IN  IF at = {} THEN 0 ELSE CHOOSE i \in at : \A j \in at : j <= i

\* Dirs::parent: what is left of the last separator, once trailing ones are cut.
DirsParent(path) ==
    LET trimmed == TrimEndSlashes(path)
        k == LastSlash(trimmed)
    IN  IF k = 0 THEN <<>> ELSE SubSeq(trimmed, 1, k - 1)

\* Mutant of DirsRegister: the parent is not registered in its own parent.
DirsRegisterNoAscent(map, path, metadata) ==
    LET parent == DirsParent(path)
        entries == IF parent \in DOMAIN map THEN map[parent] ELSE EmptyMap
    IN  IF path \in DOMAIN entries
        THEN MapPut(map, parent, entries)
        ELSE MapPut(map, parent, MapPut(entries, path, metadata))

\* Mutant of DirsRegister: the ascent stops one level above the file.
DirsRegisterOneLevel(map, path, metadata) ==
    LET parent == DirsParent(path)
        entries == IF parent \in DOMAIN map THEN map[parent] ELSE EmptyMap
    IN  IF path \in DOMAIN entries
        THEN MapPut(map, parent, entries)
        ELSE LET added == MapPut(map, parent, MapPut(entries, path, metadata))
             IN  IF Len(parent) # 0 /\ metadata = "File"
                 THEN DirsRegisterNoAscent(added, parent, "Dir")
                 ELSE added

RECURSIVE DirsRegister(_, _, _)
DirsRegister(map, path, metadata) ==
    LET parent == DirsParent(path)
        entries == IF parent \in DOMAIN map THEN map[parent] ELSE EmptyMap
    IN  IF path \in DOMAIN entries
        THEN MapPut(map, parent, entries)
        ELSE LET added == MapPut(map, parent, MapPut(entries, path, metadata))
             IN  IF Len(parent) # 0 THEN DirsRegister(added, parent, "Dir") ELSE added

RECURSIVE RegisterAll(_, _)
RegisterAll(map, paths) ==
    IF Len(paths) = 0 THEN map
    ELSE RegisterAll(DirsRegister(map, Head(paths), "File"), Tail(paths))

\* FoRegistry::is_dir.
IsDir(map, path) == Len(path) = 0 \/ TrimEndSlashes(path) \in DOMAIN map

\* FoRegistry::ls_dir: the entries of the directory, or None.
LsDir(map, path) ==
    IF TrimEndSlashes(path) \in DOMAIN map
    THEN [kind |-> "Some", entries |-> DOMAIN map[TrimEndSlashes(path)]]
    ELSE [kind |-> "None"]

\* Files::paths: the paths of the entries, in the map's iteration order.
FilesPaths(inner, order) == [i \in 1..Len(order) |-> inner[order[i]].conventional_path]

\* The orders a map with these keys may be iterated in.
Orders(keys) ==
    {o \in [1..Cardinality(keys) -> keys] : \A i, j \in DOMAIN o : i # j => o[i] # o[j]}

----------------------------------------------------------------------------
(* The registry. *)

\* datafiles::parse_datafile: one FoArchive per declared archive, in order, with the
\* modification time of its file. The path of the i-th archive is i.
ParseDatafile(disk, changed) == [i \in 1..Len(disk) |-> [changed |-> changed[i], path |-> i]]

RECURSIVE Fingerprint(_, _)
Fingerprint(state, hashes) ==
    IF Len(hashes) = 0 THEN state
    ELSE Fingerprint((state * 31 + Head(hashes) + 1) % 1000, Tail(hashes))

\* Mutant of CacheMetadataNew: the hasher starts from a state that differs from
\* one call to the next.
CacheMetadataNewSeeded(local_hashes, now) ==
    [ changed |-> now,
      local_paths_len |-> Len(local_hashes),
      local_paths_hash |-> Fingerprint(7 + now, local_hashes) ]

\* CacheMetadata::new: the number of local keys and an order-dependent hash of them.
CacheMetadataNew(local_hashes, now) ==
    [ changed |-> now,
      local_paths_len |-> Len(local_hashes),
      local_paths_hash |-> Fingerprint(7, local_hashes) ]

Hashes(paths) == [i \in 1..Len(paths) |-> paths[i].hash]

NoResult == [kind |-> "None"]

----------------------------------------------------------------------------
(* FoRetriever, one call at a time on unchanged files. *)

ArchiveBytes(index, name) == <<"archive", index, name>>

LocalBytes(path) == <<"local", path>>

\* FoRetriever::file_by_info over the archive files disk and the local tree.
FileByInfo(data, disk, tree, file_info) ==
    LET location == file_info.location IN
    IF location.kind = "Archive"
    THEN IF location.index >= Len(data.archives)
         THEN [kind |-> "Panic"]
         ELSE LET entries == disk[data.archives[location.index + 1].path] IN
              IF \E k \in 1..Len(entries) : entries[k] = location.original_path
              THEN [kind |-> "Ok", bytes |-> ArchiveBytes(location.index, location.original_path)]
              ELSE [kind |-> "Zip"]
    ELSE IF \E k \in 1..Len(tree) : DataRoot \o tree[k] = location.original_path
         THEN [kind |-> "Ok", bytes |-> LocalBytes(location.original_path)]
         ELSE [kind |-> "LocalIO"]

\* Files::file_info: the entry under the key of the path as given.
FileInfoOf(inner, path) ==
    IF Hash(path) \in DOMAIN inner THEN inner[Hash(path)] ELSE [kind |-> "None"]

\* FoRegistry::metadata.
Metadata(registry, path) ==
    IF FileInfoOf(registry.files, path) # NoResult THEN [kind |-> "Some", metadata |-> "File"]
    ELSE IF IsDir(registry.dirs, path) THEN [kind |-> "Some", metadata |-> "Dir"]
    ELSE [kind |-> "None"]

\* Mutant of FileByPath: the path is made conventional before it is hashed.
FileByPathConventional(data, disk, tree, path) ==
    IF Hash(MakePathConventional(path)) \notin DOMAIN data.files
    THEN [kind |-> "NotFound"]
    ELSE FileByInfo(data, disk, tree, data.files[Hash(MakePathConventional(path))])

\* FoRetriever::file_by_path.
FileByPath(data, disk, tree, path) ==
    IF Hash(path) \notin DOMAIN data.files
    THEN [kind |-> "NotFound"]
    ELSE FileByInfo(data, disk, tree, data.files[Hash(path)])

----------------------------------------------------------------------------
(* The whole build as one function of the disk: what init returns when it     *)
(* builds afresh at time now.                                                *)

SomeOrder(keys) == CHOOSE order \in Orders(keys) : TRUE

FreshBuild(disk, changed, tree, now) ==
    LET local == GatherLocalPaths(tree)
        crawled == [i \in 1..Len(disk) |-> CrawlArchive(i - 1, disk[i])]
        archive_pass == ReconcilePaths(EmptyMap, Flatten(crawled), "archives")
        local_pass == IF archive_pass.err.kind # "None" THEN archive_pass
                      ELSE ReconcilePaths(archive_pass.inner, local, "local")
    IN  IF local_pass.err.kind # "None"
        THEN [kind |-> "Err", err |-> "GatherPaths", cause |-> local_pass.err]
        ELSE [ kind |-> "Ok",
               data |-> [ cache_metadata |-> CacheMetadataNew(Hashes(local), now),
                          archives |-> ParseDatafile(disk, changed),
                          files |-> local_pass.inner,
                          dirs |-> RegisterAll(EmptyMap,
                                       FilesPaths(local_pass.inner,
                                                  SomeOrder(DOMAIN local_pass.inner))) ] ]

----------------------------------------------------------------------------
(* The cache blob. bincode writes a value field by field with no type tags;   *)
(* the blob is the sequence of the words written: a number is one word, a     *)
(* string its length and one word per character, an enum the index of its     *)
(* variant and then its fields, a sequence or map its length and then its     *)
(* elements.                                                                  *)

\* b"FoRegistry"
Pattern == <<70, 111, 82, 101, 103, 105, 115, 116, 114, 121>>

\* FoRegistry::version
Version == 1

\* The characters a string may hold, by their code.
CharTable == <<"a", "b", "x", "/", "A", "B", "X", "\\", "data", "c.txt", "d.txt">>

CharIndex(c) == CHOOSE i \in 1..Len(CharTable) : CharTable[i] = c

SerString(str) == <<Len(str)>> \o [i \in 1..Len(str) |-> CharIndex(str[i])]

SerCacheMetadata(metadata) ==
    <<metadata.changed, metadata.local_paths_len, metadata.local_paths_hash>>

RECURSIVE SerArchivesFrom(_, _)
SerArchivesFrom(archives, i) ==
    IF i > Len(archives) THEN <<>>
    ELSE <<archives[i].changed, archives[i].path>> \o SerArchivesFrom(archives, i + 1)

SerArchives(archives) == <<Len(archives)>> \o SerArchivesFrom(archives, 1)

SerLocation(location) ==
    IF location.kind = "Archive"
    THEN <<0, location.index>> \o SerString(location.original_path)
             \o <<location.compressed_size>>
    ELSE <<1>> \o SerString(location.original_path)

SerFileInfo(file_info) ==
    SerLocation(file_info.location) \o SerString(file_info.conventional_path)

RECURSIVE SerFilesFrom(_, _, _)
SerFilesFrom(inner, order, i) ==
    IF i > Len(order) THEN <<>>
    ELSE <<order[i]>> \o SerFileInfo(inner[order[i]]) \o SerFilesFrom(inner, order, i + 1)

\* The entries are written in the map's iteration order; reading inserts them one
\* by one, so the order does not reach the map read back.
SerFiles(inner) ==
    <<Cardinality(DOMAIN inner)>> \o SerFilesFrom(inner, SomeOrder(DOMAIN inner), 1)

SerFoMetadata(metadata) == IF metadata = "File" THEN <<0>> ELSE <<1>>

RECURSIVE SerEntriesFrom(_, _, _)
SerEntriesFrom(entries, order, i) ==
    IF i > Len(order) THEN <<>>
    ELSE SerString(order[i]) \o SerFoMetadata(entries[order[i]])
             \o SerEntriesFrom(entries, order, i + 1)

SerEntries(entries) ==
    <<Cardinality(DOMAIN entries)>> \o SerEntriesFrom(entries, SomeOrder(DOMAIN entries), 1)

RECURSIVE SerDirsFrom(_, _, _)
SerDirsFrom(map, order, i) ==
    IF i > Len(order) THEN <<>>
    ELSE SerString(order[i]) \o SerEntries(map[order[i]]) \o SerDirsFrom(map, order, i + 1)

SerDirs(map) == <<Cardinality(DOMAIN map)>> \o SerDirsFrom(map, SomeOrder(DOMAIN map), 1)

\* #[derive(Serialize)] for FoRegistry: the fields in declaration order.
SerFoRegistry(registry) ==
    SerCacheMetadata(registry.cache_metadata) \o SerArchives(registry.archives)
        \o SerFiles(registry.files) \o SerDirs(registry.dirs)

SerHeader(cache_header_) == cache_header_.pattern \o <<cache_header_.version>>

\* Mutant of FoRegistryCacheNew: the header carries the version of an older build.
FoRegistryCacheNewOldVersion(registry) ==
    [header |-> [pattern |-> Pattern, version |-> Version - 1], data |-> registry]

\* FoRegistryCache::new.
FoRegistryCacheNew(registry) ==
    [header |-> [pattern |-> Pattern, version |-> Version], data |-> registry]

\* #[derive(Serialize)] for FoRegistryCache: the header, then the data.
Serialize(cache) == SerHeader(cache.header) \o SerFoRegistry(cache.data)

(* Reading. The reader holds whether it has failed (the blob ends, a variant   *)
(* index or a character code is not one that exists), the number of words it  *)
(* has read, and the values read that are not yet part of a larger one, the   *)
(* latest last. Every step takes the reader and gives it back; a failed       *)
(* reader reads no more.                                                      *)

Reader(pos) == [ok |-> TRUE, pos |-> pos, out |-> <<>>]

Fail(st) == [st EXCEPT !.ok = FALSE]

Push(st, val, n) == [st EXCEPT !.pos = st.pos + n, !.out = Append(st.out, val)]

\* The k-th value from the last.
Nth(st, k) == st.out[Len(st.out) - k]

Top(st) == Nth(st, 0)

Pop(st) == [st EXCEPT !.out = SubSeq(st.out, 1, Len(st.out) - 1)]

\* The last n values become one.
Reduce(st, n, val) ==
    [st EXCEPT !.out = Append(SubSeq(st.out, 1, Len(st.out) - n), val)]

DeWord(bytes, st) ==
    IF st.ok /\ st.pos < Len(bytes) THEN Push(st, bytes[st.pos + 1], 1) ELSE Fail(st)

\* The characters of a string whose length has been read.
DeChars(bytes, st) ==
    IF ~st.ok THEN st
    ELSE IF st.pos + Top(st) > Len(bytes) THEN Fail(st)
    ELSE IF \E i \in 1..Top(st) : bytes[st.pos + i] \notin 1..Len(CharTable) THEN Fail(st)
    ELSE Push(Pop(st), [i \in 1..Top(st) |-> CharTable[bytes[st.pos + i]]], Top(st))

DeString(bytes, st) == DeChars(bytes, DeWord(bytes, st))

\* An element read goes to the end of the vector under it.
PushBack(st) == IF ~st.ok THEN st ELSE Reduce(st, 2, Append(Nth(st, 1), Top(st)))

\* A key and a value read go into the map under them.
Insert(st) == IF ~st.ok THEN st ELSE Reduce(st, 3, MapPut(Nth(st, 2), Nth(st, 1), Top(st)))

DeArchiveLocation(st) ==
    IF ~st.ok THEN st
    ELSE Reduce(st, 3, [ kind |-> "Archive", index |-> Nth(st, 2),
                         original_path |-> Nth(st, 1), compressed_size |-> Top(st) ])

DeLocalLocation(st) ==
    IF ~st.ok THEN st ELSE Reduce(st, 1, [kind |-> "Local", original_path |-> Top(st)])

DeLocationVariant(bytes, st) ==
    IF ~st.ok THEN st
    ELSE IF Top(st) = 0
    THEN DeArchiveLocation(DeWord(bytes, DeString(bytes, DeWord(bytes, Pop(st)))))
    ELSE IF Top(st) = 1 THEN DeLocalLocation(DeString(bytes, Pop(st)))
    ELSE Fail(st)

\* #[derive(Deserialize)] for FileLocation.
DeLocation(bytes, st) == DeLocationVariant(bytes, DeWord(bytes, st))

DeFileInfoFields(st) ==
    IF ~st.ok THEN st
    ELSE Reduce(st, 2, [location |-> Nth(st, 1), conventional_path |-> Top(st)])

\* #[derive(Deserialize)] for FileInfo.
DeFileInfo(bytes, st) == DeFileInfoFields(DeString(bytes, DeLocation(bytes, st)))

RECURSIVE DeFilesEntries(_, _, _)
DeFilesEntries(bytes, st, left) ==
    IF left = 0 \/ ~st.ok THEN st
    ELSE DeFilesEntries(bytes, Insert(DeFileInfo(bytes, DeWord(bytes, st))), left - 1)

DeFilesOfLen(bytes, st) ==
    IF ~st.ok THEN st ELSE DeFilesEntries(bytes, Reduce(st, 1, EmptyMap), Top(st))

\* #[derive(Deserialize)] for Files: the IntMap, its length first.
DeFiles(bytes, st) == DeFilesOfLen(bytes, DeWord(bytes, st))

DeFoArchiveFields(st) ==
    IF ~st.ok THEN st ELSE Reduce(st, 2, [changed |-> Nth(st, 1), path |-> Top(st)])

\* #[derive(Deserialize)] for FoArchive.
DeFoArchive(bytes, st) == DeFoArchiveFields(DeWord(bytes, DeWord(bytes, st)))

RECURSIVE DeArchiveElements(_, _, _)
DeArchiveElements(bytes, st, left) ==
    IF left = 0 \/ ~st.ok THEN st
    ELSE DeArchiveElements(bytes, PushBack(DeFoArchive(bytes, st)), left - 1)

DeArchivesOfLen(bytes, st) ==
    IF ~st.ok THEN st ELSE DeArchiveElements(bytes, Reduce(st, 1, <<>>), Top(st))

DeArchives(bytes, st) == DeArchivesOfLen(bytes, DeWord(bytes, st))

DeFoMetadataVariant(st) ==
    IF ~st.ok THEN st
    ELSE IF Top(st) = 0 THEN Reduce(st, 1, "File")
    ELSE IF Top(st) = 1 THEN Reduce(st, 1, "Dir")
    ELSE Fail(st)

\* #[derive(Deserialize)] for FoMetadata.
DeFoMetadata(bytes, st) == DeFoMetadataVariant(DeWord(bytes, st))

RECURSIVE DeEntriesElements(_, _, _)
DeEntriesElements(bytes, st, left) ==
    IF left = 0 \/ ~st.ok THEN st
    ELSE DeEntriesElements(bytes, Insert(DeFoMetadata(bytes, DeString(bytes, st))), left - 1)

DeEntriesOfLen(bytes, st) ==
    IF ~st.ok THEN st ELSE DeEntriesElements(bytes, Reduce(st, 1, EmptyMap), Top(st))

DeEntries(bytes, st) == DeEntriesOfLen(bytes, DeWord(bytes, st))

RECURSIVE DeDirsElements(_, _, _)
DeDirsElements(bytes, st, left) ==
    IF left = 0 \/ ~st.ok THEN st
    ELSE DeDirsElements(bytes, Insert(DeEntries(bytes, DeString(bytes, st))), left - 1)

DeDirsOfLen(bytes, st) ==
    IF ~st.ok THEN st ELSE DeDirsElements(bytes, Reduce(st, 1, EmptyMap), Top(st))

\* #[derive(Deserialize)] for Dirs.
DeDirs(bytes, st) == DeDirsOfLen(bytes, DeWord(bytes, st))

DeCacheMetadataFields(st) ==
    IF ~st.ok THEN st
    ELSE Reduce(st, 3, [ changed |-> Nth(st, 2), local_paths_len |-> Nth(st, 1),
                         local_paths_hash |-> Top(st) ])

\* #[derive(Deserialize)] for CacheMetadata.
DeCacheMetadata(bytes, st) ==
    DeCacheMetadataFields(DeWord(bytes, DeWord(bytes, DeWord(bytes, st))))

DeFoRegistryFields(st) ==
    IF ~st.ok THEN st
    ELSE Reduce(st, 4, [ cache_metadata |-> Nth(st, 3), archives |-> Nth(st, 2),
                         files |-> Nth(st, 1), dirs |-> Top(st) ])

\* #[derive(Deserialize)] for FoRegistry: the fields in declaration order.
DeFoRegistry(bytes, st) ==
    DeFoRegistryFields(DeDirs(bytes, DeFiles(bytes, DeArchives(bytes,
        DeCacheMetadata(bytes, st)))))

\* #[derive(Deserialize)] for FoRegistryCacheHeader: ten bytes and the version.
DeHeader(bytes, st) ==
    IF st.ok /\ st.pos + Len(Pattern) + 1 <= Len(bytes)
    THEN Push(st, [ pattern |-> SubSeq(bytes, st.pos + 1, st.pos + Len(Pattern)),
                    version |-> bytes[st.pos + Len(Pattern) + 1] ], Len(Pattern) + 1)
    ELSE Fail(st)

\* Mutant of HeaderCompatible: the version is not compared.
HeaderCompatiblePatternOnly(cache_header_) == cache_header_.pattern = Pattern

\* Visitor::visit_seq: the test that lets the data be read.
HeaderCompatible(cache_header_) ==
    cache_header_.pattern = Pattern /\ cache_header_.version = Version

----------------------------------------------------------------------------
(* Spec: FoRegistry::init building afresh (no usable cache file, the cache    *)
(* file written without an IO error), at time 0 and with archive files last  *)
(* modified at time 0.                                                       *)

TotalEntries == Len(Flatten(zips)) + Len(localTree)

\* The disk before init: archives are declared, entries and local files exist.
SetupAddArchive ==
    /\ pc = "setup"
    /\ Len(zips) < MaxArchives
    /\ zips' = Append(zips, <<>>)
    /\ UNCHANGED <<localTree, pc, task, finish_order, batches, local_paths, queue, files, dirs, result>>
    /\ UNCHANGED nonBuildVars

SetupAddEntry ==
    /\ pc = "setup"
    /\ TotalEntries < MaxFiles
    /\ \E i \in 1..Len(zips), name \in RawNames :
          zips' = [zips EXCEPT ![i] = Append(@, name)]
    /\ UNCHANGED <<localTree, pc, task, finish_order, batches, local_paths, queue, files, dirs, result>>
    /\ UNCHANGED nonBuildVars

SetupAddLocal ==
    /\ pc = "setup"
    /\ TotalEntries < MaxFiles
    /\ \E name \in LocalNames :
          /\ \A k \in 1..Len(localTree) : localTree[k] # name
          /\ localTree' = Append(localTree, name)
    /\ UNCHANGED <<zips, pc, task, finish_order, batches, local_paths, queue, files, dirs, result>>
    /\ UNCHANGED nonBuildVars

\* init, up to the crawl: the local walk, then the declared archives.
GatherLocal ==
    /\ pc = "setup"
    /\ local_paths' = GatherLocalPaths(localTree)
    /\ task' = [i \in 1..Len(zips) |-> "idle"]
    /\ batches' = [i \in 1..Len(zips) |-> <<>>]
    /\ pc' = "crawl"
    /\ UNCHANGED <<zips, localTree, finish_order, queue, files, dirs, result>>
    /\ UNCHANGED nonBuildVars

CrawlStart ==
    /\ pc = "crawl"
    /\ \E i \in 1..Len(zips) :
          /\ task[i] = "idle"
          /\ task' = [task EXCEPT ![i] = "running"]
    /\ UNCHANGED <<zips, localTree, pc, finish_order, batches, local_paths, queue, files, dirs, result>>
    /\ UNCHANGED nonBuildVars

CrawlFinish ==
    /\ pc = "crawl"
    /\ \E i \in 1..Len(zips) :
          /\ task[i] = "running"
          /\ task' = [task EXCEPT ![i] = "done"]
          /\ finish_order' = Append(finish_order, i)
          /\ batches' = Collect(batches, Len(finish_order), i,
                                CrawlArchive(i - 1, zips[i]))
    /\ UNCHANGED <<zips, localTree, pc, local_paths, queue, files, dirs, result>>
    /\ UNCHANGED nonBuildVars

\* collect() returns once every task has; the archive pass starts on the
\* flattened batches and an empty registry.
ReconcileArchivesBegin ==
    /\ pc = "crawl"
    /\ \A i \in 1..Len(zips) : task[i] = "done"
    /\ queue' = Flatten(batches)
    /\ files' = EmptyMap
    /\ pc' = "reconcile_archives"
    /\ UNCHANGED <<zips, localTree, task, finish_order, batches, local_paths, dirs, result>>
    /\ UNCHANGED nonBuildVars

\* Mutant of Reconcile: the error of a pair is dropped and the loop goes on.
ReconcileIgnoringErrors(callback) ==
    /\ Len(queue) > 0
    /\ files' = ReconcileStep(files, Head(queue).hash, Head(queue).info, callback).inner
    /\ queue' = Tail(queue)
    /\ UNCHANGED <<zips, localTree, pc, task, finish_order, batches, local_paths, dirs, result>>
    /\ UNCHANGED nonBuildVars

\* One pair is taken from the queue; an error ends init.
Reconcile(callback) ==
    /\ Len(queue) > 0
    /\ LET step == ReconcileStep(files, Head(queue).hash, Head(queue).info, callback)
       IN  /\ files' = step.inner
           /\ IF step.err.kind # "None"
              THEN /\ pc' = "failed"
                   /\ result' = [kind |-> "Err", err |-> "GatherPaths", cause |-> step.err]
                   /\ UNCHANGED queue
              ELSE /\ queue' = Tail(queue)
                   /\ UNCHANGED <<pc, result>>
    /\ UNCHANGED <<zips, localTree, task, finish_order, batches, local_paths, dirs>>
    /\ UNCHANGED nonBuildVars

ReconcileArchives ==
    /\ pc = "reconcile_archives"
    /\ Reconcile("archives")

ReconcileLocalBegin ==
    /\ pc = "reconcile_archives"
    /\ Len(queue) = 0
    /\ queue' = local_paths
    /\ pc' = "reconcile_local"
    /\ UNCHANGED <<zips, localTree, task, finish_order, batches, local_paths, files, dirs, result>>
    /\ UNCHANGED nonBuildVars

ReconcileLocal ==
    /\ pc = "reconcile_local"
    /\ Reconcile("local")

\* Every path of the registry is registered as a file, in the map's order.
RegisterDirs ==
    /\ pc = "reconcile_local"
    /\ Len(queue) = 0
    /\ \E order \in Orders(DOMAIN files) :
          dirs' = RegisterAll(EmptyMap, FilesPaths(files, order))
    /\ pc' = "write_cache"
    /\ UNCHANGED <<zips, localTree, task, finish_order, batches, local_paths, queue, files, result>>
    /\ UNCHANGED nonBuildVars

\* The cache file is written and the registry returned.
WriteCache ==
    /\ pc = "write_cache"
    /\ result' = [ kind |-> "Ok",
                   data |-> [ cache_metadata |-> CacheMetadataNew(Hashes(local_paths), 0),
                              archives |-> ParseDatafile(zips, [i \in 1..Len(zips) |-> 0]),
                              files |-> files,
                              dirs |-> dirs ] ]
    /\ written' = result'
    /\ cache_file' = [ exists |-> TRUE,
                       bytes |-> Serialize(FoRegistryCacheNew(result'.data)),
                       modified |-> 0 ]
    /\ pc' = "done"
    /\ UNCHANGED <<zips, localTree, task, finish_order, batches, local_paths, queue, files, dirs>>
    /\ UNCHANGED <<registered, datafiles_cfg, new_cache_metadata, rpc, cache_changed, rpos,
                   cache_header, cache_data, recovered, archive_changed, changes, retrVars>>

BuildInit ==
    /\ zips = <<>>
    /\ localTree = <<>>
    /\ pc = "setup"
    /\ task = <<>>
    /\ finish_order = <<>>
    /\ batches = <<>>
    /\ local_paths = <<>>
    /\ queue = <<>>
    /\ files = EmptyMap
    /\ dirs = EmptyMap
    /\ result = NoResult

\* The state before anything has run: an empty disk and an empty registry.
Blank ==
    /\ BuildInit
    /\ registered = <<>>
    /\ cache_file = [exists |-> FALSE, bytes |-> <<>>, modified |-> 0]
    /\ datafiles_cfg = [exists |-> TRUE, modified |-> 0]
    /\ written = NoResult
    /\ new_cache_metadata = CacheMetadataNew(<<>>, 0)
    /\ rpc = "idle"
    /\ cache_changed = 0
    /\ rpos = 0
    /\ cache_header = [pattern |-> <<>>, version |-> 0]
    /\ cache_data = NoResult
    /\ recovered = NoResult
    /\ archive_changed = <<>>
    /\ changes = 0
    /\ thread = [t \in 1..MaxThreads |-> [ pc |-> "idle", request |-> NoResult,
                                           file_info |-> NoResult, returned |-> NoResult,
                                           tries |-> 0 ]]
    /\ slots = <<>>
    /\ lock = <<>>
    /\ archive_state = <<>>
    /\ opens = <<>>
    /\ calls = 0
    /\ self_data = NoResult
    /\ local_state = "ok"

BuildNext ==
    \/ SetupAddArchive
    \/ SetupAddEntry
    \/ SetupAddLocal
    \/ GatherLocal
    \/ CrawlStart
    \/ CrawlFinish
    \/ ReconcileArchivesBegin
    \/ ReconcileArchives
    \/ ReconcileLocalBegin
    \/ ReconcileLocal
    \/ RegisterDirs
    \/ WriteCache

Init == Blank

Next == BuildNext

Spec == Init /\ [][Next]_vars

----------------------------------------------------------------------------
(* What the disk provides. *)

CanonicalPaths == {MakePathConventional(name) : name \in RawNames \cup LocalNames}

\* The entries of archive i (declared i-th) that are files with canonical path x.
EntriesFor(i, x) ==
    {k \in 1..Len(zips[i]) :
        ~IsDirEntry(zips[i][k]) /\ MakePathConventional(zips[i][k]) = x}

Provides(i, x) == EntriesFor(i, x) # {}

LocalFilesFor(x) == {k \in 1..Len(localTree) : MakePathConventional(localTree[k]) = x}

Max(S) == CHOOSE m \in S : \A n \in S : n <= m

\* The last declared archive with an entry for x, and that entry's name.
LastProvider(x) == Max({i \in 1..Len(zips) : Provides(i, x)})

LastEntryName(i, x) == zips[i][Max(EntriesFor(i, x))]

ArchiveLocation(i, name) ==
    [ kind |-> "Archive", index |-> i - 1, original_path |-> name,
      compressed_size |-> EntryCompressedSize(name) ]

----------------------------------------------------------------------------
(* C1  Override order. A path x that two or more archives provide and no local *)
(* file does is registered, once init has built the registry, under Hash(x)    *)
(* with the location in the archive declared last among them (its index and    *)
(* its own entry name), and file_by_path(x) returns that archive's bytes: of   *)
(* archives A and B holding x, B wins when declared after A, A when the order  *)
(* is reversed.                                                                *)
C1_OverrideOrder ==
    pc = "done" =>
        \A x \in CanonicalPaths : \A a, b \in 1..Len(zips) :
            ( /\ a < b
              /\ Provides(a, x)
              /\ Provides(b, x)
              /\ b = LastProvider(x)
              /\ LocalFilesFor(x) = {} )
            => /\ Hash(x) \in DOMAIN result.data.files
               /\ result.data.files[Hash(x)] =
                      [ location |-> ArchiveLocation(b, LastEntryName(b, x)),
                        conventional_path |-> x ]
               /\ FileByPath(result.data, zips, localTree, x) =
                      [kind |-> "Ok", bytes |-> ArchiveBytes(b - 1, LastEntryName(b, x))]

\* Two archives hold a/b under different names; the registry built names the second.
C1_Witness ==
    /\ pc = "done"
    /\ Len(zips) = 2
    /\ zips[1] = << <<"a", "/", "b">> >>
    /\ zips[2] = << <<"A", "\\", "b">> >>
    /\ localTree = <<>>
    /\ result.data.files[Hash(<<"a", "/", "b">>)].location.index = 1
    /\ result.data.files[Hash(<<"a", "/", "b">>)].location.original_path = <<"A", "\\", "b">>

(* C2  Local precedence. A path x that a local file and one or more archives   *)
(* provide is registered, once init has built the registry, with the Local     *)
(* location of that file (its absolute path), whatever the archives and their  *)
(* order.                                                                      *)
C2_LocalPrecedence ==
    pc = "done" =>
        \A x \in CanonicalPaths : \A k \in LocalFilesFor(x) :
            (\E i \in 1..Len(zips) : Provides(i, x))
            => /\ Hash(x) \in DOMAIN result.data.files
               /\ result.data.files[Hash(x)] =
                      [ location |-> [kind |-> "Local", original_path |-> DataRoot \o localTree[k]],
                        conventional_path |-> x ]
               /\ FileByPath(result.data, zips, localTree, x) =
                      [kind |-> "Ok", bytes |-> LocalBytes(DataRoot \o localTree[k])]

\* Both archives and the local tree hold x; the registry built names the local file.
C2_Witness ==
    /\ pc = "done"
    /\ Len(zips) = 2
    /\ Provides(1, <<"x">>)
    /\ Provides(2, <<"x">>)
    /\ LocalFilesFor(<<"x">>) # {}
    /\ result.data.files[Hash(<<"x">>)].location.kind = "Local"

\* Two distinct local files with one canonical path.
LocalAmbiguity ==
    \E j, k \in 1..Len(localTree) :
        j < k /\ MakePathConventional(localTree[j]) = MakePathConventional(localTree[k])

InitReturned == pc \in {"done", "failed"}

(* C3 as stated: with two local files of one canonical path, init fails with   *)
(* GatherPaths(LocalRewrite).                                                  *)
C3_AlwaysLocalRewrite ==
    (InitReturned /\ LocalAmbiguity) =>
        /\ result.kind = "Err"
        /\ result.cause.kind = "LocalRewrite"

(* C3  Local ambiguity rejected (amended). With two distinct local files of    *)
(* one canonical path, init never gets past the local pass: it fails with      *)
(* GatherPaths, carrying LocalRewrite{file, old, new} that names such a path   *)
(* and the two local locations in walk order, unless a pair whose key is held  *)
(* by an entry with another canonical path comes first, which fails it with    *)
(* Conflict.                                                                   *)
C3_LocalAmbiguityRejected ==
    LocalAmbiguity =>
        /\ ~(pc = "reconcile_local" /\ Len(queue) = 0)
        /\ pc \notin {"write_cache", "done"}
        /\ pc = "failed" =>
              /\ result.kind = "Err"
              /\ result.err = "GatherPaths"
              /\ \/ /\ result.cause.kind = "Conflict"
                    /\ result.cause.old.conventional_path # result.cause.new.conventional_path
                    /\ Hash(result.cause.old.conventional_path) = result.cause.hash
                    /\ Hash(result.cause.new.conventional_path) = result.cause.hash
                 \/ /\ result.cause.kind = "LocalRewrite"
                    /\ \E j, k \in 1..Len(localTree) :
                          /\ j < k
                          /\ MakePathConventional(localTree[j]) = result.cause.file
                          /\ MakePathConventional(localTree[k]) = result.cause.file
                          /\ result.cause.old =
                                 [kind |-> "Local", original_path |-> DataRoot \o localTree[j]]
                          /\ result.cause.new =
                                 [kind |-> "Local", original_path |-> DataRoot \o localTree[k]]

\* init has failed with LocalRewrite on the two spellings of a/b.
C3_Witness ==
    /\ pc = "failed"
    /\ LocalAmbiguity
    /\ result.cause.kind = "LocalRewrite"
    /\ result.cause.file = <<"a", "/", "b">>

\* Every pair a crawler can produce.
CrawlerPairs ==
    { CrawlArchive(i, <<name>>)[1] : i \in 0..(MaxArchives - 1),
                                     name \in {n \in RawNames : ~IsDirEntry(n)} }
        \cup { GatherLocalPaths(<<name>>)[1] : name \in LocalNames }

(* C4  Collision is fatal. In every registry the build goes through, for every *)
(* pair a crawler can produce and either callback: if the key is held by an    *)
(* entry with another conventional_path, the turn of reconcile_paths returns   *)
(* Conflict with the key, the entry that was registered and the new FileInfo,  *)
(* and the new FileInfo is not in the registry.                                *)
C4_CollisionFatal ==
    \A pair \in CrawlerPairs : \A callback \in {"archives", "local"} :
        ( /\ pair.hash \in DOMAIN files
          /\ files[pair.hash].conventional_path # pair.info.conventional_path )
        => LET step == ReconcileStep(files, pair.hash, pair.info, callback) IN
           /\ step.err = [ kind |-> "Conflict", hash |-> pair.hash,
                           old |-> files[pair.hash], new |-> pair.info ]
           /\ \A k \in DOMAIN step.inner : step.inner[k] # pair.info

\* init has failed with Conflict between a local entry and a second local file.
C4_Witness ==
    /\ pc = "failed"
    /\ result.cause.kind = "Conflict"
    /\ result.cause.old.location.kind = "Local"
    /\ result.cause.new.location.kind = "Local"
    /\ result.cause.old.conventional_path # result.cause.new.conventional_path

\* The batches by declaration, and the build done one batch after the other.
DeclaredBatches == [i \in 1..Len(zips) |-> CrawlArchive(i - 1, zips[i])]

SequentialBuild ==
    LET archive_pass == ReconcilePaths(EmptyMap, Flatten(DeclaredBatches), "archives")
    IN  IF archive_pass.err.kind # "None" THEN archive_pass
        ELSE ReconcilePaths(archive_pass.inner, GatherLocalPaths(localTree), "local")

IsSuffix(s, t) == Len(s) <= Len(t) /\ s = SubSeq(t, Len(t) - Len(s) + 1, Len(t))

(* C5  Determinism of the build. Whatever the order in which the crawl tasks   *)
(* start and finish, the archive pass works through the batches in declared    *)
(* order, the local pass comes after it, and init returns what the build done  *)
(* batch by batch in declared order, local last, returns: the same error, or   *)
(* the same files, with the declared archives and the index of those files.    *)
C5_BuildDeterministic ==
    /\ pc = "reconcile_archives" => IsSuffix(queue, Flatten(DeclaredBatches))
    /\ pc = "reconcile_local" => IsSuffix(queue, GatherLocalPaths(localTree))
    /\ pc = "failed" =>
          /\ result.kind = "Err"
          /\ result.cause = SequentialBuild.err
    /\ pc = "done" =>
          /\ result.kind = "Ok"
          /\ SequentialBuild.err.kind = "None"
          /\ result.data.files = SequentialBuild.inner
          /\ result.data.archives = ParseDatafile(zips, [i \in 1..Len(zips) |-> 0])
          /\ \E order \in Orders(DOMAIN SequentialBuild.inner) :
                result.data.dirs =
                    RegisterAll(EmptyMap, FilesPaths(SequentialBuild.inner, order))

\* The task of the second archive finished first, both archives hold a/b, and
\* the registry built names the second archive.
C5_Witness ==
    /\ pc = "done"
    /\ finish_order = <<2, 1>>
    /\ Provides(1, <<"a", "/", "b">>)
    /\ Provides(2, <<"a", "/", "b">>)
    /\ LocalFilesFor(<<"a", "/", "b">>) = {}
    /\ result.data.files[Hash(<<"a", "/", "b">>)].location.index = 1

----------------------------------------------------------------------------
(* SpecDirs: Dirs::register called for file paths on an index that starts     *)
(* empty (Dirs::default, as in FoRegistry::stub), and the queries on it.      *)

\* The file paths registered; a/b is a file and also a directory of another.
DirPaths ==
    { <<"a", "/", "b", "/", "c.txt">>, <<"a", "/", "d.txt">>, <<"a", "/", "b">>, <<"x">> }

\* The paths asked about.
QueryPaths ==
    DirPaths \cup { <<>>, <<"/">>, <<"a">>, <<"a", "/">>, <<"b">>, <<"a", "/", "b", "/">> }

RegisterFile ==
    /\ Len(registered) < MaxRegistered
    /\ \E path \in DirPaths :
          /\ dirs' = DirsRegister(dirs, path, "File")
          /\ registered' = Append(registered, path)
    /\ UNCHANGED nonDirsVars

DirsNext == RegisterFile

SpecDirs == Blank /\ [][DirsNext]_vars

Registered == {registered[i] : i \in 1..Len(registered)}

ABC == <<"a", "/", "b", "/", "c.txt">>

AD == <<"a", "/", "d.txt">>

RECURSIVE ReachesRoot(_, _)
ReachesRoot(map, d) ==
    \/ Len(d) = 0
    \/ /\ Len(DirsParent(d)) < Len(d)
       /\ DirsParent(d) \in DOMAIN map
       /\ d \in DOMAIN map[DirsParent(d)]
       /\ ReachesRoot(map, DirsParent(d))

(* C31  Directory index closure: after any sequence of register calls for     *)
(* file paths, every directory key but the root is a child of its parent, the *)
(* parent is a key, and the chain of parents reaches the root, each parent    *)
(* shorter than its child (so the ascent of register ends); this also after   *)
(* calls that returned early on a pair already present.                       *)
C31_DirsClosure ==
    /\ \A d \in DOMAIN dirs : ReachesRoot(dirs, d)
    /\ Len(registered) > 0 => <<>> \in DOMAIN dirs

\* a/b was registered as a file, then a/b/c.txt: the ascent from a/b/c.txt
\* found a/b already a child of a and returned, and a/b is a directory key.
C31_Witness ==
    /\ registered = << <<"a", "/", "b">>, ABC >>
    /\ <<"a", "/", "b">> \in DOMAIN dirs
    /\ dirs[<<"a">>][<<"a", "/", "b">>] = "File"

(* C32  Order independence of the index, as stated: whatever file paths were   *)
(* registered, a file that is also a directory of another included, the index *)
(* is the one that registering the same paths in any other order gives, with  *)
(* the same keys, children and File/Dir tags.                                 *)
C32_OrderIndependent ==
    \A order \in Orders(Registered) : dirs = RegisterAll(EmptyMap, order)

(* C7  Directory listing totality, as stated: for every index, the empty one   *)
(* included, and every path p, ls_dir(p) is Some exactly when is_dir(p).       *)
C7_ListingTotality ==
    \A path \in QueryPaths : (LsDir(dirs, path).kind = "Some") <=> IsDir(dirs, path)

----------------------------------------------------------------------------
(* SpecCache: the cache file and FoRegistry::recover_from_cache. A build      *)
(* writes the file; the file may then be touched or damaged, the local tree   *)
(* and DataFiles.cfg may change; recover_from_cache then decides on it.       *)

Times == 0..MaxTime

\* The archives of a client, as the entry names of each.
SampleDisks ==
    { <<>>,
      << << <<"a", "/", "b">>, <<"x">> >> >>,
      << << <<"a", "/", "b">> >>, << <<"A", "\\", "b">>, <<"a", "/">> >> >> }

\* The files under data/, in walk order.
SampleTrees ==
    { <<>>, << <<"x">> >>, << <<"a", "/", "b">> >>, << <<"x">>, <<"a", "/", "b">> >> }

\* The damaged forms of a blob: another magic, another version, cut short,
\* and anything at all after a header of each kind.
Garbage == <<99, 0, 99>>

Damaged(bytes) ==
    { [bytes EXCEPT ![1] = 0],
      [bytes EXCEPT ![Len(Pattern) + 1] = Version + 1],
      [bytes EXCEPT ![Len(Pattern) + 1] = Version - 1],
      SubSeq(bytes, 1, Len(Pattern)),
      SubSeq(bytes, 1, Len(Pattern) + 1),
      SubSeq(bytes, 1, Len(bytes) - 1),
      SerHeader([pattern |-> Pattern, version |-> Version]) \o Garbage,
      SerHeader([pattern |-> Pattern, version |-> Version + 1]) \o Garbage,
      SerHeader([pattern |-> [Pattern EXCEPT ![Len(Pattern)] = 0],
                 version |-> Version]) \o Garbage }

\* init, from the build to the file written (the file's own time is not before
\* the time taken when the build began).
WriteCacheFile ==
    /\ rpc = "idle"
    /\ ~cache_file.exists
    /\ \E disk \in SampleDisks, tree \in SampleTrees, now \in Times, modified \in Times :
       \E changed \in [1..Len(disk) -> Times] :
         LET built == FreshBuild(disk, changed, tree, now) IN
         /\ built.kind = "Ok"
         /\ modified >= now
         /\ written' = built
         /\ cache_file' = [ exists |-> TRUE,
                            bytes |-> Serialize(FoRegistryCacheNew(built.data)),
                            modified |-> modified ]
    /\ UNCHANGED <<datafiles_cfg, new_cache_metadata, rpc, cache_changed, rpos,
                   cache_header, cache_data, recovered>>
    /\ UNCHANGED nonCacheVars

\* The file is touched: its time changes, its content does not.
TouchCacheFile ==
    /\ rpc = "idle"
    /\ cache_file.exists
    /\ \E modified \in Times :
         /\ modified # cache_file.modified
         /\ cache_file' = [cache_file EXCEPT !.modified = modified]
    /\ UNCHANGED <<datafiles_cfg, written, new_cache_metadata, rpc, cache_changed, rpos,
                   cache_header, cache_data, recovered>>
    /\ UNCHANGED nonCacheVars

\* The file is damaged, or is the file of another build.
DamageCacheFile ==
    /\ rpc = "idle"
    /\ cache_file.exists
    /\ written.kind = "Ok"
    /\ cache_file.bytes = Serialize(FoRegistryCacheNew(written.data))
    /\ \E bytes \in Damaged(cache_file.bytes) :
         cache_file' = [cache_file EXCEPT !.bytes = bytes]
    /\ UNCHANGED <<datafiles_cfg, written, new_cache_metadata, rpc, cache_changed, rpos,
                   cache_header, cache_data, recovered>>
    /\ UNCHANGED nonCacheVars

\* init up to the call of recover_from_cache: the local tree as it is now gives
\* new_cache_metadata; DataFiles.cfg is as it is now.
RecoverStart ==
    /\ rpc = "idle"
    /\ \E tree \in SampleTrees, exists \in BOOLEAN, modified \in Times :
         /\ new_cache_metadata' = CacheMetadataNew(Hashes(GatherLocalPaths(tree)), MaxTime)
         /\ datafiles_cfg' = [exists |-> exists, modified |-> modified]
         /\ (~exists => modified = 0)
    /\ rpc' = "open"
    /\ UNCHANGED <<cache_file, written, cache_changed, rpos, cache_header, cache_data,
                   recovered>>
    /\ UNCHANGED nonCacheVars

CacheError(err) == [kind |-> "Err", err |-> err]

\* File::open and the file's time.
RecoverOpen ==
    /\ rpc = "open"
    /\ IF cache_file.exists
       THEN /\ cache_changed' = cache_file.modified
            /\ rpc' = "header"
            /\ UNCHANGED recovered
       ELSE /\ recovered' = CacheError("CacheIO")
            /\ rpc' = "returned"
            /\ UNCHANGED cache_changed
    /\ UNCHANGED <<cache_file, datafiles_cfg, written, new_cache_metadata, rpos,
                   cache_header, cache_data>>
    /\ UNCHANGED nonCacheVars

\* visit_seq, the first element.
DeserializeHeader ==
    /\ rpc = "header"
    /\ LET read == DeHeader(cache_file.bytes, Reader(0)) IN
       IF read.ok
       THEN /\ cache_header' = Top(read)
            /\ rpos' = read.pos
            /\ rpc' = "data"
            /\ UNCHANGED recovered
       ELSE /\ recovered' = CacheError("CacheDeserialize")
            /\ rpc' = "returned"
            /\ UNCHANGED <<cache_header, rpos>>
    /\ UNCHANGED <<cache_file, datafiles_cfg, written, new_cache_metadata, cache_changed,
                   cache_data>>
    /\ UNCHANGED nonCacheVars

\* visit_seq, the second element: read only under a header that is compatible.
DeserializeData ==
    /\ rpc = "data"
    /\ IF ~HeaderCompatible(cache_header)
       THEN /\ cache_data' = CacheError("CacheIncompatible")
            /\ rpc' = "into_data"
            /\ UNCHANGED <<rpos, recovered>>
       ELSE LET read == DeFoRegistry(cache_file.bytes, Reader(rpos)) IN
            IF read.ok
            THEN /\ cache_data' = [kind |-> "Ok", data |-> Top(read)]
                 /\ rpos' = read.pos
                 /\ rpc' = "into_data"
                 /\ UNCHANGED recovered
            ELSE /\ recovered' = CacheError("CacheDeserialize")
                 /\ rpc' = "returned"
                 /\ UNCHANGED <<cache_data, rpos>>
    /\ UNCHANGED <<cache_file, datafiles_cfg, written, new_cache_metadata, cache_changed,
                   cache_header>>
    /\ UNCHANGED nonCacheVars

\* cache.into_data()?
IntoData ==
    /\ rpc = "into_data"
    /\ IF cache_data.kind = "Ok"
       THEN /\ rpc' = "validate"
            /\ UNCHANGED recovered
       ELSE /\ recovered' = cache_data
            /\ rpc' = "returned"
    /\ UNCHANGED <<cache_file, datafiles_cfg, written, new_cache_metadata, cache_changed,
                   rpos, cache_header, cache_data>>
    /\ UNCHANGED nonCacheVars

\* Mutant of CacheFloor: the time of the file alone.
CacheFloorFileOnly(file_changed, built_at) == file_changed

\* cache_changed.min(data.cache_metadata.changed)
CacheFloor(file_changed, built_at) ==
    IF file_changed <= built_at THEN file_changed ELSE built_at

\* Mutant of Recovered: the time of DataFiles.cfg is not compared.
RecoveredIgnoringConfig(data, new_metadata, cfg, file_changed) ==
    IF ~cfg.exists THEN CacheError("Datafiles")
    ELSE LET floor == CacheFloor(file_changed, data.cache_metadata.changed) IN
         IF \/ new_metadata.local_paths_len # data.cache_metadata.local_paths_len
            \/ new_metadata.local_paths_hash # data.cache_metadata.local_paths_hash
         THEN CacheError("CacheStale")
         ELSE IF \E i \in 1..Len(data.archives) : data.archives[i].changed > floor
         THEN CacheError("CacheStale")
         ELSE [kind |-> "Ok", data |-> data]

\* recover_from_cache after into_data.
Recovered(data, new_metadata, cfg, file_changed) ==
    IF ~cfg.exists THEN CacheError("Datafiles")
    ELSE LET floor == CacheFloor(file_changed, data.cache_metadata.changed) IN
         IF cfg.modified > floor THEN CacheError("CacheStale")
         ELSE IF \/ new_metadata.local_paths_len # data.cache_metadata.local_paths_len
                 \/ new_metadata.local_paths_hash # data.cache_metadata.local_paths_hash
         THEN CacheError("CacheStale")
         ELSE IF \E i \in 1..Len(data.archives) : data.archives[i].changed > floor
         THEN CacheError("CacheStale")
         ELSE [kind |-> "Ok", data |-> data]

Validate ==
    /\ rpc = "validate"
    /\ recovered' = Recovered(cache_data.data, new_cache_metadata, datafiles_cfg,
                              cache_changed)
    /\ rpc' = "returned"
    /\ UNCHANGED <<cache_file, datafiles_cfg, written, new_cache_metadata, cache_changed,
                   rpos, cache_header, cache_data>>
    /\ UNCHANGED nonCacheVars

CacheNext ==
    \/ WriteCacheFile
    \/ TouchCacheFile
    \/ DamageCacheFile
    \/ RecoverStart
    \/ RecoverOpen
    \/ DeserializeHeader
    \/ DeserializeData
    \/ IntoData
    \/ Validate

SpecCache == Blank /\ [][CacheNext]_vars

(* What recover_from_cache is given. *)

HeaderLen == Len(Pattern) + 1

\* The file holds a header, and it is not the header of this build.
Drifted ==
    /\ cache_file.exists
    /\ Len(cache_file.bytes) >= HeaderLen
    /\ \/ SubSeq(cache_file.bytes, 1, Len(Pattern)) # Pattern
       \/ cache_file.bytes[HeaderLen] # Version

\* The file is as the build wrote it.
Untouched ==
    /\ cache_file.exists
    /\ written.kind = "Ok"
    /\ cache_file.bytes = Serialize(FoRegistryCacheNew(written.data))

Deserialized == rpc \in {"into_data", "validate", "returned"}

(* C8  Cache rejects schema drift. Of a blob whose magic is not "FoRegistry" or *)
(* whose version is not FoRegistry::version(), whatever follows the header,     *)
(* recover_from_cache reads the header and no word more, the data of the cache  *)
(* is Err(CacheIncompatible), and that is what recover_from_cache returns.      *)
C8_SchemaDriftRejected ==
    Drifted =>
        /\ rpos <= HeaderLen
        /\ rpc # "validate"
        /\ Deserialized =>
               /\ rpos = HeaderLen
               /\ cache_data = CacheError("CacheIncompatible")
        /\ rpc = "returned" => recovered = CacheError("CacheIncompatible")

\* A blob of the next version with garbage after the header has been rejected.
C8_Witness ==
    /\ rpc = "returned"
    /\ cache_file.bytes = SerHeader([pattern |-> Pattern, version |-> Version + 1]) \o Garbage
    /\ recovered = CacheError("CacheIncompatible")

(* C9  Cache round trip. Of the blob a build wrote (FoRegistryCache::new over   *)
(* its registry, serialized), the same build reads the whole blob and gets Ok   *)
(* with a registry equal to the one written, cache_metadata, archives, files    *)
(* and dirs; recover_from_cache does not return CacheIncompatible or            *)
(* CacheDeserialize for it.                                                     *)
C9_CacheRoundTrip ==
    (Untouched /\ Deserialized) =>
        /\ cache_data = [kind |-> "Ok", data |-> written.data]
        /\ rpos = Len(cache_file.bytes)
        /\ recovered \notin {CacheError("CacheIncompatible"), CacheError("CacheDeserialize")}

\* A registry of two archives with files in an archive and under data/, and
\* directories of both tags, has been written, read back and returned.
C9_Witness ==
    /\ rpc = "returned"
    /\ Untouched
    /\ recovered = [kind |-> "Ok", data |-> written.data]
    /\ Len(written.data.archives) = 2
    /\ \E h \in DOMAIN written.data.files : written.data.files[h].location.kind = "Local"
    /\ \E h \in DOMAIN written.data.files : written.data.files[h].location.kind = "Archive"
    /\ \E parent \in DOMAIN written.data.dirs :
           \E child \in DOMAIN written.data.dirs[parent] :
               written.data.dirs[parent][child] = "Dir"

\* min(cache file mtime, persisted built_at), of a cache that was deserialized.
Floor ==
    IF cache_file.modified <= cache_data.data.cache_metadata.changed
    THEN cache_file.modified
    ELSE cache_data.data.cache_metadata.changed

\* The three conditions of acceptance.
Fresh ==
    /\ datafiles_cfg.modified <= Floor
    /\ new_cache_metadata.local_paths_len = cache_data.data.cache_metadata.local_paths_len
    /\ new_cache_metadata.local_paths_hash = cache_data.data.cache_metadata.local_paths_hash
    /\ \A i \in 1..Len(cache_data.data.archives) : cache_data.data.archives[i].changed <= Floor

(* C10  Recovery acceptance. recover_from_cache returns Ok only with the        *)
(* registry deserialized from the file and only if, with floor the earlier of   *)
(* the file's time and the persisted built_at, DataFiles.cfg is not later than  *)
(* floor, the count and the fingerprint of the local files as they are now      *)
(* equal the persisted ones, and no persisted archive time is later than        *)
(* floor; with the cache deserialized and DataFiles.cfg there, it returns       *)
(* CacheStale when one of these fails and the registry when none does.          *)
C10_RecoveryAcceptance ==
    rpc = "returned" =>
        /\ recovered.kind = "Ok" =>
               /\ cache_data.kind = "Ok"
               /\ recovered.data = cache_data.data
               /\ datafiles_cfg.exists
               /\ Fresh
        /\ (cache_data.kind = "Ok" /\ datafiles_cfg.exists) =>
               recovered = IF Fresh THEN cache_data ELSE CacheError("CacheStale")

\* A registry with archives has been accepted from a file whose time is not the
\* persisted built_at, with DataFiles.cfg modified at the floor.
C10_Witness ==
    /\ rpc = "returned"
    /\ recovered.kind = "Ok"
    /\ Len(recovered.data.archives) > 0
    /\ cache_file.modified > recovered.data.cache_metadata.changed
    /\ datafiles_cfg.modified = recovered.data.cache_metadata.changed
    /\ datafiles_cfg.modified > 0

----------------------------------------------------------------------------
(* SpecInit: FoRegistry::init on a client where an earlier init has built the  *)
(* registry and written the cache file. Between the two the cache file, the    *)
(* archive files, DataFiles.cfg and the local tree may change. The build is    *)
(* taken in one step here; Spec takes it apart.                                *)

\* What SpecInit leaves alone of the build.
buildSteps ==
    <<pc, task, finish_order, batches, local_paths, queue, files, dirs, registered, retrVars>>

\* One more change on disk between the two calls of init.
Change ==
    /\ rpc = "idle"
    /\ written # NoResult
    /\ changes < MaxChanges
    /\ changes' = changes + 1

recoverState == <<new_cache_metadata, cache_changed, rpos, cache_header, cache_data, recovered>>

\* An archive that is added to DataFiles.cfg, and the entry an archive file gains
\* when it is modified.
AddedEntry == <<"b", "x">>

AddedArchive == <<AddedEntry>>

Holds(entries, name) == \E k \in 1..Len(entries) : entries[k] = name

\* The earlier init: no cache file, the registry built and the file written, with
\* the time of the build as the time of the file (a later time comes by a touch).
EarlierInit ==
    /\ rpc = "idle"
    /\ written = NoResult
    /\ \E disk \in SampleDisks, tree \in SampleTrees, now \in Times :
       \E changed \in [1..Len(disk) -> Times] :
         LET built == FreshBuild(disk, changed, tree, now) IN
         /\ built.kind = "Ok"
         /\ zips' = disk
         /\ archive_changed' = changed
         /\ localTree' = tree
         /\ written' = built
         /\ cache_file' = [ exists |-> TRUE,
                            bytes |-> Serialize(FoRegistryCacheNew(built.data)),
                            modified |-> now ]
    /\ UNCHANGED <<datafiles_cfg, rpc, result, recoverState, buildSteps, changes>>

\* DataFiles.cfg is touched or removed.
TouchConfig ==
    /\ Change
    /\ \E exists \in BOOLEAN, modified \in Times :
         /\ (~exists => modified = 0)
         /\ datafiles_cfg # [exists |-> exists, modified |-> modified]
         /\ datafiles_cfg' = [exists |-> exists, modified |-> modified]
    /\ UNCHANGED <<zips, archive_changed, localTree, written, cache_file, rpc, result,
                   recoverState, buildSteps>>

\* An archive is added to DataFiles.cfg, which changes the time of DataFiles.cfg
\* to one not before the earlier init.
EditConfig ==
    /\ Change
    /\ datafiles_cfg.exists
    /\ Len(zips) < MaxArchives
    /\ \E modified \in Times, changed \in Times :
         /\ modified >= written.data.cache_metadata.changed
         /\ zips' = Append(zips, AddedArchive)
         /\ archive_changed' = Append(archive_changed, changed)
         /\ datafiles_cfg' = [datafiles_cfg EXCEPT !.modified = modified]
    /\ UNCHANGED <<localTree, written, cache_file, rpc, result, recoverState, buildSteps>>

\* An archive file is modified: it gains an entry, and its time changes to one
\* not before the earlier init.
ModifyArchive ==
    /\ Change
    /\ \E i \in 1..Len(zips), changed \in Times :
         /\ changed >= written.data.cache_metadata.changed
         /\ ~Holds(zips[i], AddedEntry)
         /\ zips' = [zips EXCEPT ![i] = Append(zips[i], AddedEntry)]
         /\ archive_changed' = [archive_changed EXCEPT ![i] = changed]
    /\ UNCHANGED <<localTree, datafiles_cfg, written, cache_file, rpc, result, recoverState,
                   buildSteps>>

\* Files appear or disappear under data/.
ChangeLocalTree ==
    /\ Change
    /\ \E tree \in SampleTrees :
         /\ tree # localTree
         /\ localTree' = tree
    /\ UNCHANGED <<zips, archive_changed, datafiles_cfg, written, cache_file, rpc, result,
                   recoverState, buildSteps>>

\* fo_data.bin is removed, touched, damaged or replaced by the file of another build.
ChangeCacheFile ==
    /\ Change
    /\ cache_file.exists
    /\ \/ cache_file' = [exists |-> FALSE, bytes |-> <<>>, modified |-> 0]
       \/ \E modified \in Times :
            /\ modified # cache_file.modified
            /\ cache_file' = [cache_file EXCEPT !.modified = modified]
       \/ /\ written.kind = "Ok"
          /\ cache_file.bytes = Serialize(FoRegistryCacheNew(written.data))
          /\ \E bytes \in Damaged(cache_file.bytes) :
               cache_file' = [cache_file EXCEPT !.bytes = bytes]
    /\ UNCHANGED <<zips, archive_changed, localTree, datafiles_cfg, written, rpc, result,
                   recoverState, buildSteps>>

\* init up to the call of recover_from_cache.
InitStart ==
    /\ rpc = "idle"
    /\ written # NoResult
    /\ new_cache_metadata' = CacheMetadataNew(Hashes(GatherLocalPaths(localTree)), MaxTime)
    /\ rpc' = "open"
    /\ UNCHANGED <<zips, archive_changed, localTree, datafiles_cfg, written, cache_file, result,
                   cache_changed, rpos, cache_header, cache_data, recovered, buildSteps, changes>>

\* ok => return ok
InitReturnRecovered ==
    /\ rpc = "returned"
    /\ recovered.kind = "Ok"
    /\ result' = recovered
    /\ rpc' = "done"
    /\ UNCHANGED <<zips, archive_changed, localTree, datafiles_cfg, written, cache_file,
                   recoverState, buildSteps, changes>>

\* What creating and writing fo_data.bin may come to.
WriteOutcomes == {"written", "create_failed", "write_failed"}

\* Mutant of InitWrite: an error of creating or writing the file is dropped.
InitWriteIgnoringErrors(built, outcome, now) ==
    [ result |-> built,
      written |-> IF outcome = "written" THEN built ELSE written,
      cache_file |-> IF outcome = "written"
                     THEN [ exists |-> TRUE,
                            bytes |-> Serialize(FoRegistryCacheNew(built.data)),
                            modified |-> now ]
                     ELSE cache_file ]

\* init, the block that writes the cache file, and the return after it.
InitWrite(built, outcome, now) ==
    IF outcome = "written"
    THEN [ result |-> built,
           written |-> built,
           cache_file |-> [ exists |-> TRUE,
                            bytes |-> Serialize(FoRegistryCacheNew(built.data)),
                            modified |-> now ] ]
    ELSE IF outcome = "create_failed"
    THEN [result |-> CacheError("CacheIO"), written |-> written, cache_file |-> cache_file]
    ELSE [ result |-> CacheError("CacheSerialize"),
           written |-> written,
           cache_file |-> [ exists |-> TRUE,
                            bytes |-> SerHeader(FoRegistryCacheNew(built.data).header),
                            modified |-> now ] ]

\* Err(err) => println!, and init from parse_datafile to its end.
InitRebuild ==
    /\ rpc = "returned"
    /\ recovered.kind = "Err"
    /\ IF ~datafiles_cfg.exists
       THEN /\ result' = CacheError("Datafiles")
            /\ UNCHANGED <<written, cache_file>>
       ELSE LET built == FreshBuild(zips, archive_changed, localTree, MaxTime) IN
            IF built.kind # "Ok"
            THEN /\ result' = built
                 /\ UNCHANGED <<written, cache_file>>
            ELSE \E outcome \in WriteOutcomes :
                   LET after == InitWrite(built, outcome, MaxTime) IN
                   /\ result' = after.result
                   /\ written' = after.written
                   /\ cache_file' = after.cache_file
    /\ rpc' = "done"
    /\ UNCHANGED <<zips, archive_changed, localTree, datafiles_cfg, recoverState, buildSteps,
                   changes>>

InitNext ==
    \/ EarlierInit
    \/ TouchConfig
    \/ EditConfig
    \/ ModifyArchive
    \/ ChangeLocalTree
    \/ ChangeCacheFile
    \/ InitStart
    \/ RecoverOpen
    \/ DeserializeHeader
    \/ DeserializeData
    \/ IntoData
    \/ Validate
    \/ InitReturnRecovered
    \/ InitRebuild

SpecInit == Blank /\ [][InitNext]_vars

(* What init was given and what it would build from the sources as they are. *)

\* min(the time of the cache file when it was opened, persisted built_at), of a
\* cache that was deserialized.
FloorAtOpen ==
    IF cache_changed <= cache_data.data.cache_metadata.changed
    THEN cache_changed
    ELSE cache_data.data.cache_metadata.changed

\* What init returns when there is no cache file and the file can be written.
NoCacheBuild == FreshBuild(zips, archive_changed, localTree, MaxTime)

ConfigNewer ==
    /\ cache_data.kind = "Ok"
    /\ datafiles_cfg.exists
    /\ datafiles_cfg.modified > FloorAtOpen

(* C11  Staleness triggers rebuild. When DataFiles.cfg is later than the floor  *)
(* of a cache that deserialized, recover_from_cache reports CacheStale and init *)
(* does not return the registry of the cache: what it returns, when it returns  *)
(* a registry, is the registry built afresh from the sources as they are, with  *)
(* the archives DataFiles.cfg declares now, and fo_data.bin then holds that     *)
(* registry.                                                                    *)
C11_StalenessTriggersRebuild ==
    (ConfigNewer /\ rpc \in {"returned", "done"}) =>
        /\ recovered = CacheError("CacheStale")
        /\ (rpc = "done" /\ result.kind = "Ok") =>
               /\ result = NoCacheBuild
               /\ result.data.archives = ParseDatafile(zips, archive_changed)
               /\ cache_file = [ exists |-> TRUE,
                                 bytes |-> Serialize(FoRegistryCacheNew(result.data)),
                                 modified |-> MaxTime ]

\* DataFiles.cfg has gained an archive and is later than the floor; init has
\* returned a registry with more archives than the cache held, and written it.
C11_Witness ==
    /\ rpc = "done"
    /\ ConfigNewer
    /\ result.kind = "Ok"
    /\ Len(result.data.archives) > Len(cache_data.data.archives)
    /\ written = result

(* C12  Bad cache is equivalent to no cache, as stated: whatever the cache file *)
(* is on entry, the registry init returns has the files, dirs and archives of   *)
(* the registry it returns from the same sources with no cache file.            *)
C12_BadCacheIsNoCache ==
    (rpc = "done" /\ result.kind = "Ok") =>
        /\ NoCacheBuild.kind = "Ok"
        /\ result.data.files = NoCacheBuild.data.files
        /\ result.data.dirs = NoCacheBuild.data.dirs
        /\ result.data.archives = NoCacheBuild.data.archives

(* C13  A rebuild never fails init because of the cache, as stated: with        *)
(* DataFiles.cfg, the archives and the local tree readable and reconciliation   *)
(* succeeding, init returns Ok whatever opening, reading, creating or writing   *)
(* fo_data.bin came to.                                                         *)
C13_CacheNeverFailsInit ==
    (rpc = "done" /\ datafiles_cfg.exists /\ NoCacheBuild.kind = "Ok") => result.kind = "Ok"

(* C14  The cache never serves stale data, as stated: when an archive file that *)
(* DataFiles.cfg declares is later on disk than the floor of the cache, init    *)
(* does not return the registry of the cache.                                   *)
C14_NeverServesStale ==
    ( /\ rpc = "done"
      /\ cache_data.kind = "Ok"
      /\ \E i \in 1..Len(archive_changed) : archive_changed[i] > FloorAtOpen )
        => recovered.kind = "Err"

\* Nothing has changed on disk since the earlier init wrote the cache file, and
\* no archive file or DataFiles.cfg is later than the time that init took at its
\* start.
NothingChanged ==
    /\ written.kind = "Ok"
    /\ changes = 0
    /\ datafiles_cfg.exists
    /\ datafiles_cfg.modified <= written.data.cache_metadata.changed
    /\ \A i \in 1..Len(archive_changed) :
          archive_changed[i] <= written.data.cache_metadata.changed

(* C33  A fresh cache is reused. When nothing has changed since the earlier    *)
(* init wrote the cache file and no modification time is later than that       *)
(* init's start, recover_from_cache returns the registry that init built, and  *)
(* the step init then takes is the return of that registry: no build, and      *)
(* fo_data.bin is left as it is.                                               *)
C33_FreshCacheReused ==
    /\ []((rpc = "returned" /\ NothingChanged) =>
              /\ recovered = written
              /\ ~ENABLED InitRebuild)
    /\ [][(rpc = "returned" /\ NothingChanged) =>
              /\ rpc' = "done"
              /\ result' = written
              /\ written' = written
              /\ cache_file' = cache_file
              /\ zips' = zips]_vars

\* The second init has returned the registry of the cache: two archives, the
\* second modified at the very time the earlier init started, and a local file.
C33_Witness ==
    /\ rpc = "done"
    /\ NothingChanged
    /\ result = written
    /\ recovered = written
    /\ Len(result.data.archives) = 2
    /\ archive_changed[2] = written.data.cache_metadata.changed
    /\ archive_changed[2] > 0
    /\ result.data.cache_metadata.local_paths_len > 0

----------------------------------------------------------------------------
(* SpecRetriever: threads sharing one FoRetriever. A call of file_by_path or   *)
(* file_by_info goes through the lock of the archive's slot, the check of the  *)
(* slot and the open, by_name and read_to_end, each a step. The content of the *)
(* archive files does not change; whether a file can be opened may.            *)

Threads == 1..MaxThreads

\* The client the retriever serves: two archives and a local file.
RetrieverDisk ==
    << << <<"a", "/", "b">>, <<"x">> >>, << <<"x">> >> >>

RetrieverTree == << <<"b", "b">> >>

\* The registry given to FoRetriever::new.
RetrieverData ==
    FreshBuild(RetrieverDisk, [i \in 1..Len(RetrieverDisk) |-> 0], RetrieverTree, 0).data

\* A FileInfo made with FileInfo::new_in_archive by a caller, for an archive the
\* registry does not have.
ForeignInfo == NewInArchive(<<"x">>, Len(RetrieverData.archives), <<"x">>, 1)

\* The FileInfo the crawler made for the entry x of the first archive, which the
\* second archive shadows in the registry.
ShadowedInfo == CrawlArchive(0, RetrieverDisk[1])[2].info

\* The calls: by path for an entry of the first archive, one of the second, a
\* local file and a path that is not registered; by FileInfo for an archive the
\* registry does not have and for the shadowed entry of the first archive.
Requests ==
    { [kind |-> "file_by_path", path |-> path] :
          path \in { <<"a", "/", "b">>, <<"x">>, <<"b", "b">>, <<"b", "x">> } }
        \cup { [kind |-> "file_by_info", file_info |-> info] :
                  info \in {ForeignInfo, ShadowedInfo} }

\* What File::open and ZipArchive::new find at the path of an archive: the
\* archive, no file, or a file that is no zip.
ArchiveStates == {"ok", "missing", "not_zip"}

\* What an archive file may be replaced by that still opens as a zip: a zip
\* without the entries the registry names, and a zip whose entry data cannot be
\* read.
ReplacedStates == {"other_zip", "unreadable"}

\* Mutant of FoRetrieverNew: the table is one slot short.
FoRetrieverNewShort(registry) ==
    [ archives |-> [i \in 1..(Len(registry.archives) - 1) |-> [open |-> FALSE]],
      data |-> registry ]

\* FoRetriever::new: resize_with(data.archives.len(), Default::default).
FoRetrieverNew(registry) ==
    [ archives |-> [i \in 1..Len(registry.archives) |-> [open |-> FALSE]],
      data |-> registry ]

\* FoRegistry::into_retriever: one empty slot per archive of the registry.
IntoRetriever ==
    /\ Len(slots) = 0
    /\ slots' = FoRetrieverNew(RetrieverData).archives
    /\ lock' = [i \in 1..Len(RetrieverData.archives) |-> 0]
    /\ opens' = [i \in 1..Len(RetrieverData.archives) |-> [ok |-> 0]]
    /\ archive_state' \in [1..Len(RetrieverData.archives) -> ArchiveStates]
    /\ self_data' = FoRetrieverNew(RetrieverData).data
    /\ UNCHANGED <<thread, calls, changes, local_state, nonRetrVars>>

\* An archive file disappears, is replaced by something that is no zip, or is
\* put back, before the retriever has opened it (a handle that is open stays as
\* it is: the retriever does not look at the path again).
SetArchiveState ==
    /\ Len(slots) > 0
    /\ changes < MaxChanges
    /\ changes' = changes + 1
    /\ \E i \in 1..Len(archive_state), state \in ArchiveStates :
         /\ ~slots[i].open
         /\ state # archive_state[i]
         /\ archive_state' = [archive_state EXCEPT ![i] = state]
    /\ UNCHANGED <<thread, slots, lock, opens, calls, self_data, local_state, nonRetrVars>>

\* Mutant of MutexOf: one Mutex for all the slots.
MutexOfShared(archive_index) == 1

\* The Mutex of self.archives[archive_index].
MutexOf(archive_index) == archive_index + 1

\* Mutant of MutexFree: lock() never waits.
MutexFreeAlways(holder) == TRUE

\* lock() returns when no thread holds the Mutex.
MutexFree(holder) == holder = 0

\* Mutant of Unlock: the guard is kept when the call returns.
UnlockNever(locks, archive_index) == locks

\* The guard is dropped.
Unlock(locks, archive_index) == [locks EXCEPT ![MutexOf(archive_index)] = 0]

\* Mutant of NeedsOpen: the archive is opened at every call.
NeedsOpenAlways(slot) == TRUE

\* guard.is_none()
NeedsOpen(slot) == ~slot.open

\* Mutant of Index: every call works on the first archive.
IndexFirst(t) == 0

\* archive_index as file_by_info gives it to get_archive.
Index(t) == thread[t].file_info.location.index

Returns(t, value) == [thread EXCEPT ![t].pc = "idle", ![t].returned = value]

RetrieverError(err) == [kind |-> err]

\* Mutant of Call: a local file is read only while the Mutex of the first slot
\* is free.
CallLocalWaits(t) ==
    /\ Len(slots) > 0
    /\ thread[t].pc = "idle"
    /\ \A earlier \in 1..(t - 1) : thread[earlier].request # NoResult
    /\ calls < MaxCalls
    /\ calls' = calls + 1
    /\ \E request \in Requests :
         LET file_info == IF request.kind = "file_by_path"
                          THEN FileInfoOf(self_data.files, request.path)
                          ELSE request.file_info
             called == [ pc |-> "idle", request |-> request, file_info |-> file_info,
                         returned |-> NoResult, tries |-> 0 ]
         IN  IF file_info = NoResult
             THEN thread' = [thread EXCEPT ![t] =
                                [called EXCEPT !.returned = RetrieverError("NotFound")]]
             ELSE IF file_info.location.kind = "Local"
             THEN /\ lock[1] = 0
                  /\ thread' = [thread EXCEPT ![t] =
                         [called EXCEPT !.returned =
                            FileByInfo(self_data, RetrieverDisk, RetrieverTree, file_info)]]
             ELSE IF file_info.location.index >= Len(slots)
             THEN thread' = [thread EXCEPT ![t] = [called EXCEPT !.pc = "panicked"]]
             ELSE thread' = [thread EXCEPT ![t] = [called EXCEPT !.pc = "lock"]]
    /\ UNCHANGED <<slots, lock, archive_state, opens, changes, self_data, local_state, nonRetrVars>>

\* file_by_path up to file_by_info, and file_by_info up to get_archive: the
\* lookup, the match on the location, the read of a local file, the indexing
\* of self.archives. The threads are numbered in the order of their first call.
Call(t) ==
    /\ Len(slots) > 0
    /\ thread[t].pc = "idle"
    /\ \A earlier \in 1..(t - 1) : thread[earlier].request # NoResult
    /\ calls < MaxCalls
    /\ calls' = calls + 1
    /\ \E request \in Requests :
         LET file_info == IF request.kind = "file_by_path"
                          THEN FileInfoOf(self_data.files, request.path)
                          ELSE request.file_info
             called == [ pc |-> "idle", request |-> request, file_info |-> file_info,
                         returned |-> NoResult, tries |-> 0 ]
         IN  thread' = [thread EXCEPT ![t] =
                 IF file_info = NoResult
                 THEN [called EXCEPT !.returned = RetrieverError("NotFound")]
                 ELSE IF file_info.location.kind = "Local"
                 THEN [called EXCEPT !.returned =
                           IF local_state = "ok"
                           THEN FileByInfo(self_data, RetrieverDisk, RetrieverTree, file_info)
                           ELSE RetrieverError("LocalIO")]
                 ELSE IF file_info.location.index >= Len(slots)
                 THEN [called EXCEPT !.pc = "panicked"]
                 ELSE [called EXCEPT !.pc = "lock"]]
    /\ UNCHANGED <<slots, lock, archive_state, opens, changes, self_data, local_state, nonRetrVars>>

\* Mutant of Lock: the thread goes on without the lock.
LockNotTaken(t) ==
    /\ thread[t].pc = "lock"
    /\ thread' = [thread EXCEPT ![t].pc = "get_archive"]
    /\ UNCHANGED <<slots, lock, archive_state, opens, calls, changes, self_data, local_state, nonRetrVars>>

\* self.archives[archive_index].lock()
Lock(t) ==
    /\ thread[t].pc = "lock"
    /\ MutexFree(lock[MutexOf(Index(t))])
    /\ lock' = [lock EXCEPT ![MutexOf(Index(t))] = t]
    /\ thread' = [thread EXCEPT ![t].pc = "get_archive"]
    /\ UNCHANGED <<slots, archive_state, opens, calls, changes, self_data, local_state, nonRetrVars>>

\* get_archive under the guard: the check of the slot, and the open when it is
\* empty.
GetArchive(t) ==
    /\ thread[t].pc = "get_archive"
    /\ LET i == Index(t) + 1 IN
       IF ~NeedsOpen(slots[i])
       THEN /\ thread' = [thread EXCEPT ![t].pc = "by_name"]
            /\ UNCHANGED <<slots, lock, opens>>
       ELSE IF archive_state[i] \notin {"missing", "not_zip"}
       THEN /\ slots' = [slots EXCEPT ![i] = [ open |-> TRUE, serial |-> opens[i].ok + 1,
                                               cursor |-> <<>>, of |-> archive_state[i] ]]
            /\ opens' = [opens EXCEPT ![i].ok = @ + 1]
            /\ thread' = [thread EXCEPT ![t].pc = "by_name", ![t].tries = @ + 1]
            /\ UNCHANGED lock
       ELSE /\ thread' = [ Returns(t, RetrieverError(IF archive_state[i] = "missing"
                                                     THEN "OpenArchive" ELSE "Zip"))
                             EXCEPT ![t].tries = @ + 1 ]
            /\ lock' = Unlock(lock, Index(t))
            /\ UNCHANGED <<slots, opens>>
    /\ UNCHANGED <<archive_state, calls, changes, self_data, local_state, nonRetrVars>>

\* archive.by_name(original_path): the handle is set at the entry.
ByName(t) ==
    /\ thread[t].pc = "by_name"
    /\ LET i == Index(t) + 1
           name == thread[t].file_info.location.original_path
       IN  IF slots[i].of # "other_zip" /\ Holds(RetrieverDisk[i], name)
           THEN /\ slots' = [slots EXCEPT ![i].cursor = name]
                /\ thread' = [thread EXCEPT ![t].pc = "read_to_end"]
                /\ UNCHANGED lock
           ELSE /\ thread' = Returns(t, RetrieverError("Zip"))
                /\ lock' = Unlock(lock, Index(t))
                /\ UNCHANGED slots
    /\ UNCHANGED <<archive_state, opens, calls, changes, self_data, local_state, nonRetrVars>>

\* Mutant of ReadToEnd: the call returns and the guard is never dropped.
ReadToEndKeepsGuard(t) ==
    /\ thread[t].pc = "read_to_end"
    /\ thread' = Returns(t, [ kind |-> "Ok",
                              bytes |-> ArchiveBytes(Index(t), slots[Index(t) + 1].cursor) ])
    /\ UNCHANGED <<slots, lock, archive_state, opens, calls, changes, self_data, local_state,
                   nonRetrVars>>

\* file.read_to_end(&mut buffer): the bytes of the entry the handle is at; the
\* guard is dropped on return.
ReadToEnd(t) ==
    /\ thread[t].pc = "read_to_end"
    /\ thread' = Returns(t, IF slots[Index(t) + 1].of = "unreadable"
                            THEN RetrieverError("ArchiveRead")
                            ELSE [ kind |-> "Ok",
                                   bytes |-> ArchiveBytes(Index(t),
                                                          slots[Index(t) + 1].cursor) ])
    /\ lock' = Unlock(lock, Index(t))
    /\ UNCHANGED <<slots, archive_state, opens, calls, changes, self_data, local_state, nonRetrVars>>

RetrieverNext ==
    \/ IntoRetriever
    \/ SetArchiveState
    \/ \E t \in Threads : Call(t)
    \/ \E t \in Threads : Lock(t)
    \/ \E t \in Threads : GetArchive(t)
    \/ \E t \in Threads : ByName(t)
    \/ \E t \in Threads : ReadToEnd(t)

SpecRetriever == Blank /\ [][RetrieverNext]_vars

(* What a call returns when it runs alone on a fresh retriever, on the files   *)
(* as they are.                                                                *)

OpenError(state) == RetrieverError(IF state = "missing" THEN "OpenArchive" ELSE "Zip")

Alone(path) ==
    LET file_info == FileInfoOf(RetrieverData.files, path) IN
    IF file_info = NoResult THEN RetrieverError("NotFound")
    ELSE IF /\ file_info.location.kind = "Archive"
            /\ archive_state[file_info.location.index + 1] # "ok"
    THEN OpenError(archive_state[file_info.location.index + 1])
    ELSE FileByPath(RetrieverData, RetrieverDisk, RetrieverTree, path)

ReturnedTo(t) == thread[t].pc = "idle" /\ thread[t].returned # NoResult

OnArchive(t) == thread[t].pc \in {"lock", "get_archive", "by_name", "read_to_end"}

UnderGuard(t) == thread[t].pc \in {"get_archive", "by_name", "read_to_end"}

HeldBy(t) == {m \in DOMAIN lock : lock[m] = t}

\* The call of t, under way or returned, is for an entry of this archive.
InArchive(t, archive_index) ==
    /\ thread[t].file_info # NoResult
    /\ thread[t].file_info.location.kind = "Archive"
    /\ thread[t].file_info.location.index = archive_index

(* C15  Concurrent retrieval safety. With the files on disk unchanged, whatever *)
(* the interleaving of the threads' calls of file_by_path on one retriever,     *)
(* for the same path of an archive, for other entries of it and for paths of    *)
(* other archives, every call returns what the same call returns alone on a     *)
(* fresh retriever.                                                             *)
C15_ConcurrentRetrieval ==
    \A t \in Threads :
        (changes = 0 /\ ReturnedTo(t) /\ thread[t].request.kind = "file_by_path")
            => thread[t].returned = Alone(thread[t].request.path)

\* Two calls for a/b and one for a path of the other archive have returned the
\* bytes of their entries.
C15_Witness ==
    /\ changes = 0
    /\ \E t1, t2, t3 \in Threads :
         /\ t1 # t2
         /\ thread[t1].request = [kind |-> "file_by_path", path |-> <<"a", "/", "b">>]
         /\ thread[t2].request = thread[t1].request
         /\ thread[t3].request = [kind |-> "file_by_path", path |-> <<"x">>]
         /\ \A t \in {t1, t2, t3} : ReturnedTo(t) /\ thread[t].returned.kind = "Ok"

(* C16  Race-free lazy open. A thread checks and fills the slot of an archive   *)
(* only while it holds the lock of that slot, taken once for both; no archive   *)
(* is opened successfully more than once per retriever, and a slot that has     *)
(* been filled holds the handle of that one open ever after.                    *)
C16_LazyOpenOnce ==
    /\ \A t \in Threads : UnderGuard(t) => lock[MutexOf(Index(t))] = t
    /\ \A i \in 1..Len(slots) :
         /\ opens[i].ok <= 1
         /\ slots[i].open <=> opens[i].ok = 1
         /\ slots[i].open => slots[i].serial = 1

\* Three calls on one archive are done or under way, two of them waiting for
\* the lock when the first opened it.
C16_Witness ==
    /\ Len(slots) > 0
    /\ opens[1].ok = 1
    /\ \E t1, t2, t3 \in Threads :
         /\ t1 # t2 /\ t2 # t3 /\ t1 # t3
         /\ ReturnedTo(t1) /\ thread[t1].returned.kind = "Ok" /\ thread[t1].tries = 1
         /\ ReturnedTo(t2) /\ thread[t2].returned.kind = "Ok" /\ thread[t2].tries = 0
         /\ thread[t3].pc = "read_to_end" /\ thread[t3].tries = 0
         /\ \A t \in {t1, t2, t3} : InArchive(t, 0)

(* C17  A failed open is not cached. A call in which the open of the archive    *)
(* file or the read of its zip directory fails returns OpenArchive or Zip after *)
(* that one attempt, holding no lock; the slot stays empty and keeps nothing of *)
(* the failure; a later call finds the slot empty and opens the file anew, so   *)
(* every call that is past get_archive has a handle and every call that         *)
(* returned an open error made its own attempt.                                 *)
C17_FailedOpenNotCached ==
    /\ \A t \in Threads :
         /\ thread[t].tries <= 1
         /\ (ReturnedTo(t) /\ thread[t].returned.kind \in {"OpenArchive", "Zip"}) =>
                /\ HeldBy(t) = {}
                /\ thread[t].tries = 1
         /\ thread[t].pc \in {"by_name", "read_to_end"} => slots[Index(t) + 1].open
    /\ \A i \in 1..Len(slots) :
         /\ ~slots[i].open => slots[i] = [open |-> FALSE]
         /\ opens[i].ok = 0 => ~slots[i].open
         /\ ~slots[i].open => (\A t \in Threads : UnderGuard(t) \/ lock[MutexOf(i - 1)] # t)

\* A call failed with OpenArchive, the file came back, and a later call on the
\* same archive opened it and returned the bytes.
C17_Witness ==
    \E t1, t2 \in Threads :
        /\ ReturnedTo(t1) /\ thread[t1].returned.kind = "OpenArchive"
        /\ ReturnedTo(t2) /\ thread[t2].returned.kind = "Ok" /\ thread[t2].tries = 1
        /\ Index(t1) = Index(t2)
        /\ opens[Index(t1) + 1].ok = 1

(* C18  Reads of different archives never block each other. A thread holds at   *)
(* most one lock, and none while it asks for one; a thread that waits for the   *)
(* lock of an archive waits for a thread that is in a call on that archive.     *)
C18_IndependentLocks ==
    \A t \in Threads :
        /\ Cardinality(HeldBy(t)) <= 1
        /\ ~UnderGuard(t) => HeldBy(t) = {}
        /\ thread[t].pc = "lock" =>
               \A h \in Threads :
                   lock[MutexOf(Index(t))] = h => (UnderGuard(h) /\ Index(h) = Index(t))

\* Two threads are reading, each under the lock of its own archive, and a third
\* waits for one of them.
C18_Witness ==
    \E t1, t2, t3 \in Threads :
        /\ thread[t1].pc = "read_to_end" /\ Index(t1) = 0
        /\ thread[t2].pc = "read_to_end" /\ Index(t2) = 1
        /\ thread[t3].pc = "lock" /\ Index(t3) = 0

(* C19  Invalid archive index is a typed error, as stated: file_by_info with a  *)
(* FileInfo whose archive index is not less than the number of archives         *)
(* returns Err(InvalidArchiveIndex), and the call does not crash.               *)
C19_InvalidIndexTyped ==
    \A t \in Threads :
        ( /\ thread[t].request.kind = "file_by_info"
          /\ thread[t].file_info.location.index >= Len(RetrieverData.archives) )
            => /\ thread[t].pc = "idle"
               /\ thread[t].returned = RetrieverError("InvalidArchiveIndex")

\* The spellings a caller may give: the names on disk and their canonical forms.
Spellings == RawNames \cup LocalNames \cup CanonicalPaths

(* C20  By-path lookup does not canonicalize. On every registry init returns,   *)
(* for every spelling p, file_by_path(p) and Files::file_info(p) look under     *)
(* Hash(p), p as given: with no entry under that key they give NotFound and     *)
(* None, also when the canonical form of p is registered under its own key;     *)
(* with an entry they give what file_by_info gives for that entry, and it.      *)
C20_LookupAsGiven ==
    (pc = "done" /\ result.kind = "Ok") =>
        \A p \in Spellings :
            IF Hash(p) \in DOMAIN result.data.files
            THEN /\ FileInfoOf(result.data.files, p) = result.data.files[Hash(p)]
                 /\ FileByPath(result.data, zips, localTree, p)
                        = FileByInfo(result.data, zips, localTree, result.data.files[Hash(p)])
            ELSE /\ FileInfoOf(result.data.files, p) = NoResult
                 /\ FileByPath(result.data, zips, localTree, p) = [kind |-> "NotFound"]

\* a/b is registered and found, and its spelling A\b, with another key, is not.
C20_Witness ==
    /\ pc = "done"
    /\ result.kind = "Ok"
    /\ FileByPath(result.data, zips, localTree, <<"a", "/", "b">>).kind = "Ok"
    /\ MakePathConventional(<<"A", "\\", "b">>) = <<"a", "/", "b">>
    /\ Hash(<<"A", "\\", "b">>) # Hash(<<"a", "/", "b">>)
    /\ FileByPath(result.data, zips, localTree, <<"A", "\\", "b">>) = [kind |-> "NotFound"]

----------------------------------------------------------------------------
(* Claims on the build as a whole and on reconcile_paths (Spec). *)

\* The pairs of every batch, archives first and local last.
AllPairs == Flatten(batches) \o local_paths

(* C21  No partially built state is observable. A registry is returned, and a   *)
(* cache file exists, only when init is done: every crawl task has finished,    *)
(* both passes have emptied their queue, every pair of every batch is accounted *)
(* for in the registry, the registry returned is the one the passes left, its   *)
(* directory index is built from the paths of that registry, and the cache file *)
(* holds that registry. An init that failed in reconcile_paths has returned an  *)
(* error and written no cache file.                                             *)
C21_NoPartialState ==
    /\ (result.kind = "Ok" \/ cache_file.exists \/ written # NoResult) =>
          /\ pc = "done"
          /\ \A i \in 1..Len(zips) : task[i] = "done"
          /\ Len(queue) = 0
          /\ result.kind = "Ok"
          /\ result.data.files = files
          /\ \A k \in 1..Len(AllPairs) :
                /\ AllPairs[k].hash \in DOMAIN files
                /\ files[AllPairs[k].hash].conventional_path
                       = AllPairs[k].info.conventional_path
          /\ result.data.dirs = dirs
          /\ \E order \in Orders(DOMAIN files) :
                dirs = RegisterAll(EmptyMap, FilesPaths(files, order))
          /\ written = result
          /\ cache_file.exists
          /\ cache_file.bytes = Serialize(FoRegistryCacheNew(result.data))
    /\ pc = "failed" =>
          /\ result.kind = "Err"
          /\ result.err = "GatherPaths"
          /\ ~cache_file.exists
          /\ written = NoResult

\* init has failed in the local pass with part of the pairs applied; nothing
\* was written and no registry returned.
C21_Witness ==
    /\ pc = "failed"
    /\ Len(queue) > 0
    /\ IsSuffix(queue, local_paths)
    /\ files # EmptyMap
    /\ dirs = EmptyMap
    /\ result.kind = "Err"
    /\ ~cache_file.exists

\* The pairs of the local batch that the local pass has processed.
LocalDone == SubSeq(local_paths, 1, Len(local_paths) - Len(queue))

(* C22  An accepted shadow is a location-only update. In every registry the     *)
(* build goes through, for every pair a crawler can produce whose key is held   *)
(* by an entry with the same conventional_path, and either callback: the turn   *)
(* of reconcile_paths returns what the callback returns on the path, the        *)
(* location registered before the turn and the new location; when that is no    *)
(* error, the entry has the new location and the path it had, the keys of the   *)
(* registry are the same, and every other entry is as it was.                   *)
C22_ShadowUpdatesLocationOnly ==
    \A pair \in CrawlerPairs : \A callback \in {"archives", "local"} :
        ( /\ pair.hash \in DOMAIN files
          /\ files[pair.hash].conventional_path = pair.info.conventional_path )
        => LET step == ReconcileStep(files, pair.hash, pair.info, callback) IN
           /\ step.err = OnShadow(callback, pair.info.conventional_path,
                                  files[pair.hash].location, pair.info.location)
           /\ step.err = NoError =>
                 /\ step.inner[pair.hash].location = pair.info.location
                 /\ step.inner[pair.hash].conventional_path
                        = files[pair.hash].conventional_path
                 /\ DOMAIN step.inner = DOMAIN files
                 /\ \A k \in DOMAIN files \ {pair.hash} : step.inner[k] = files[k]

\* The local pass has replaced the archive location of a path by the local one,
\* next to an entry it did not touch.
C22_Witness ==
    /\ pc = "reconcile_local"
    /\ \E k \in 1..Len(LocalDone) :
          /\ \E i \in 1..Len(zips) : Provides(i, LocalDone[k].info.conventional_path)
          /\ files[LocalDone[k].hash] = LocalDone[k].info
    /\ \E h \in DOMAIN files : files[h].location.kind = "Archive"

\* The registry after the pairs that came before the failing one, which is the
\* head of the queue: the pairs of the pass that failed, less the queue.
BeforeFailing ==
    LET archive_pass == ReconcilePaths(EmptyMap, Flatten(batches), "archives")
        before(paths) == SubSeq(paths, 1, Len(paths) - Len(queue))
    IN  IF archive_pass.err.kind # "None"
        THEN ReconcilePaths(EmptyMap, before(Flatten(batches)), "archives").inner
        ELSE ReconcilePaths(archive_pass.inner, before(local_paths), "local").inner

(* C27  A failing pair has no effect on the registry, as stated: when           *)
(* reconcile_paths has returned Conflict or LocalRewrite, the registry is what  *)
(* the pairs before the failing one made it, and so the entry under the         *)
(* failing key is still there with the location and path it had.                *)
C27_FailingPairNoEffect ==
    pc = "failed" =>
        /\ files = BeforeFailing
        /\ Head(queue).hash \in DOMAIN files
        /\ result.cause.kind = "Conflict" => files[Head(queue).hash] = result.cause.old
        /\ result.cause.kind = "LocalRewrite" =>
               files[Head(queue).hash].location = result.cause.old

\* The paths of the files of a registry.
RegisteredPaths(inner) == {inner[h].conventional_path : h \in DOMAIN inner}

(* C28  Lookup soundness, as stated: on every registry init returns, for every  *)
(* spelling p, file_by_path(p) returns bytes, and metadata(p) returns File,     *)
(* only if a registered file has conventional_path p; a path that is not        *)
(* registered gives NotFound, also when its key is the key of a registered      *)
(* path.                                                                        *)
C28_LookupSound ==
    (pc = "done" /\ result.kind = "Ok") =>
        \A p \in Spellings :
            IF p \in RegisteredPaths(result.data.files)
            THEN TRUE
            ELSE /\ FileByPath(result.data, zips, localTree, p) = [kind |-> "NotFound"]
                 /\ Metadata(result.data, p) # [kind |-> "Some", metadata |-> "File"]

\* Every entry is under the key of its own path, and no two entries have the
\* same path.
KeyConsistent(inner) ==
    /\ \A k \in DOMAIN inner : Hash(inner[k].conventional_path) = k
    /\ \A k1, k2 \in DOMAIN inner :
          inner[k1].conventional_path = inner[k2].conventional_path => k1 = k2

(* C29  Key consistency. The key of every pair the crawlers produce is the      *)
(* hash of the pair's conventional_path; at every point of the two passes of    *)
(* reconcile_paths, after a pass has succeeded and after it has failed, every   *)
(* entry of the registry is under the key of its own conventional_path and no   *)
(* two entries have the same conventional_path; and one more turn of            *)
(* reconcile_paths, with any pair a crawler can produce and either callback,    *)
(* succeeding or failing, leaves the registry so.                               *)
C29_KeyConsistency ==
    /\ \A k \in 1..Len(AllPairs) :
          AllPairs[k].hash = Hash(AllPairs[k].info.conventional_path)
    /\ KeyConsistent(files)
    /\ \A pair \in CrawlerPairs : \A callback \in {"archives", "local"} :
          KeyConsistent(ReconcileStep(files, pair.hash, pair.info, callback).inner)

\* The local pass has failed with LocalRewrite and left a registry of two
\* entries, one of them in an archive.
C29_Witness ==
    /\ pc = "failed"
    /\ result.cause.kind = "LocalRewrite"
    /\ Cardinality(DOMAIN files) = 2
    /\ \E h \in DOMAIN files : files[h].location.kind = "Archive"

\* The entry was crawled from the archive its index names: the batch of that
\* archive holds it, and the descriptor at that index is the archive's.
CrawledFrom(registry, file_info) ==
    /\ file_info.location.index < Len(registry.archives)
    /\ registry.archives[file_info.location.index + 1].path = file_info.location.index + 1
    /\ \E k \in 1..Len(batches[file_info.location.index + 1]) :
          batches[file_info.location.index + 1][k].info = file_info

ArchiveIndexValid(registry, retriever) ==
    /\ Len(registry.archives) = Len(zips)
    /\ Len(retriever.archives) = Len(registry.archives)
    /\ retriever.data = registry
    /\ \A h \in DOMAIN registry.files :
          registry.files[h].location.kind = "Archive" =>
              /\ CrawledFrom(registry, registry.files[h])
              /\ registry.files[h].location.index + 1 \in DOMAIN retriever.archives
    /\ \A h \in DOMAIN registry.files :
          FileByPath(retriever.data, zips, localTree,
                     registry.files[h].conventional_path).kind = "Ok"

\* C30: in every registry init returns from a fresh build, each Archive
\* location's index is smaller than the number of archive descriptors and names
\* the archive the entry was crawled from; the retriever made from the registry
\* has one slot per descriptor, so the index of every registered entry is a slot
\* of the table and resolving a registered path addresses no slot outside it.
C30_ArchiveIndexValid ==
    (pc = "done" /\ result.kind = "Ok") =>
        ArchiveIndexValid(result.data, FoRetrieverNew(result.data))

\* init has returned a registry over two archives whose crawl tasks finished in
\* the reverse of the declared order; it holds an entry of each archive.
C30_Witness ==
    /\ pc = "done"
    /\ result.kind = "Ok"
    /\ finish_order = <<2, 1>>
    /\ \A i \in {0, 1} : \E h \in DOMAIN result.data.files :
          /\ result.data.files[h].location.kind = "Archive"
          /\ result.data.files[h].location.index = i

----------------------------------------------------------------------------
(* Claims on the retriever at serve time (SpecRetriever). *)

\* The step is one of thread t's.
Moves(t) == thread'[t] # thread[t]

(* C23  The registry is immutable at serve time. Once the retriever is made,    *)
(* no step of any call, successful or failing, changes the registry it holds,   *)
(* which stays the registry it was made from, nor the number of its slots; a    *)
(* step that changes a slot is a step of a thread whose call is on the archive  *)
(* of that slot, and it changes no other slot.                                  *)
C23_RegistryImmutable ==
    [][ Len(slots) > 0 =>
          /\ self_data = RetrieverData
          /\ self_data' = self_data
          /\ Len(slots') = Len(slots)
          /\ \A i \in 1..Len(slots) :
                slots'[i] # slots[i] =>
                    /\ \E t \in Threads : Moves(t) /\ OnArchive(t) /\ InArchive(t, i - 1)
                    /\ \A j \in 1..Len(slots) : j # i => slots'[j] = slots[j] ]_vars

\* Calls have returned bytes of the first archive, an open error of the second
\* and NotFound; the first slot holds a handle, the second is empty, and the
\* registry is the one the retriever was made from.
C23_Witness ==
    /\ Len(slots) > 0
    /\ self_data = RetrieverData
    /\ slots[1].open
    /\ ~slots[2].open
    /\ \E t1, t2, t3 \in Threads :
          /\ ReturnedTo(t1) /\ thread[t1].returned.kind = "Ok" /\ InArchive(t1, 0)
          /\ ReturnedTo(t2) /\ thread[t2].returned.kind = "OpenArchive" /\ InArchive(t2, 1)
          /\ ReturnedTo(t3) /\ thread[t3].returned.kind = "NotFound"

(* C24  Mutual exclusion per archive. No two threads are at the same time       *)
(* between the emptiness check and the end of the read on the same archive; a   *)
(* thread that is there holds the lock of that archive's slot, and a lock is    *)
(* held by nobody else: it is free once the call has returned, with bytes or    *)
(* with an error, and before the call has taken it.                             *)
C24_MutualExclusion ==
    /\ \A t1, t2 \in Threads :
          (t1 # t2 /\ UnderGuard(t1) /\ UnderGuard(t2)) => Index(t1) # Index(t2)
    /\ \A t \in Threads : UnderGuard(t) => lock[Index(t) + 1] = t
    /\ \A m \in DOMAIN lock :
          lock[m] # 0 => (UnderGuard(lock[m]) /\ Index(lock[m]) + 1 = m)

\* One thread is looking up its entry in the first archive while two others
\* wait for the lock of that archive.
C24_Witness ==
    \E t1, t2, t3 \in Threads :
        /\ t2 # t3
        /\ thread[t1].pc = "by_name" /\ Index(t1) = 0 /\ lock[1] = t1
        /\ thread[t2].pc = "lock" /\ Index(t2) = 0
        /\ thread[t3].pc = "lock" /\ Index(t3) = 0

\* The call of t, under way or returned, is for a local file.
OnLocal(t) == thread[t].file_info # NoResult /\ thread[t].file_info.location.kind = "Local"

\* Thread t calls file_by_path for the local file.
LocalCall(t) ==
    /\ Call(t)
    /\ thread'[t].request = [kind |-> "file_by_path", path |-> <<"b", "b">>]

\* The model lets t make a call: it is in none, and the calls are not used up.
MayCall(t) ==
    /\ Len(slots) > 0
    /\ thread[t].pc = "idle"
    /\ \A earlier \in 1..(t - 1) : thread[earlier].request # NoResult
    /\ calls < MaxCalls

(* C26  Local-file reads take no lock. A thread that may call can call for the  *)
(* local file whatever locks the other threads hold; the step in which a call   *)
(* finds a Local location is the step in which the call returns, and it leaves  *)
(* every lock and every slot as it was; a thread whose call is for a local file *)
(* is never at a lock nor under a guard and holds no lock.                      *)
C26_LocalTakesNoLock ==
    /\ [](\A t \in Threads :
            /\ MayCall(t) => ENABLED LocalCall(t)
            /\ OnLocal(t) => (~OnArchive(t) /\ HeldBy(t) = {}))
    /\ [][ \A t \in Threads :
             (Moves(t) /\ OnLocal(t)') =>
                 /\ ReturnedTo(t)'
                 /\ thread'[t].returned.kind \in {"Ok", "LocalIO"}
                 /\ lock' = lock
                 /\ slots' = slots ]_vars

\* Both locks are held, each by a thread reading its archive, and the third
\* thread's call for the local file has returned its bytes.
C26_Witness ==
    \E t1, t2, t3 \in Threads :
        /\ thread[t1].pc = "read_to_end" /\ lock[1] = t1
        /\ thread[t2].pc = "read_to_end" /\ lock[2] = t2
        /\ ReturnedTo(t3) /\ OnLocal(t3)
        /\ thread[t3].returned = [kind |-> "Ok", bytes |-> LocalBytes(DataRoot \o <<"b", "b">>)]

----------------------------------------------------------------------------
(* SpecResolve: the calls of SpecRetriever under fair scheduling, with every   *)
(* failure of the file system a call can meet. Each thread that is in a call   *)
(* takes its next step eventually; a thread at lock() takes it when the Mutex  *)
(* stays free. The archive files that cannot be opened are so from the start.  *)

Resolvers == 1..MaxResolvers

\* An archive file is replaced by another zip, before the retriever has opened it.
ReplaceArchive ==
    /\ Len(slots) > 0
    /\ changes < MaxChanges
    /\ changes' = changes + 1
    /\ \E i \in 1..Len(archive_state), state \in ReplacedStates :
         /\ ~slots[i].open
         /\ state # archive_state[i]
         /\ archive_state' = [archive_state EXCEPT ![i] = state]
    /\ UNCHANGED <<thread, slots, lock, opens, calls, self_data, local_state, nonRetrVars>>

\* The local file is removed.
RemoveLocal ==
    /\ Len(slots) > 0
    /\ changes < MaxChanges
    /\ changes' = changes + 1
    /\ local_state = "ok"
    /\ local_state' = "missing"
    /\ UNCHANGED <<thread, slots, lock, archive_state, opens, calls, self_data, nonRetrVars>>

ResolveNext ==
    \/ IntoRetriever
    \/ ReplaceArchive
    \/ RemoveLocal
    \/ \E t \in Resolvers : calls < MaxResolves /\ Call(t)
    \/ \E t \in Resolvers : Lock(t)
    \/ \E t \in Resolvers : GetArchive(t)
    \/ \E t \in Resolvers : ByName(t)
    \/ \E t \in Resolvers : ReadToEnd(t)

Fairness ==
    \A t \in Resolvers :
        /\ WF_vars(Lock(t))
        /\ WF_vars(GetArchive(t))
        /\ WF_vars(ByName(t))
        /\ WF_vars(ReadToEnd(t))

SpecResolve == Blank /\ [][ResolveNext]_vars /\ Fairness

(* C25  Every resolve completes and leaves no lock held. Under fair scheduling  *)
(* every call that has reached the archives returns, with bytes or with         *)
(* OpenArchive, Zip or ArchiveRead; a call that needs no archive (NotFound, a   *)
(* local file read or not readable) returns in its one step; and a thread that  *)
(* is not in a call on an archive holds no lock. A thread that waits for a      *)
(* lock therefore gets it: the calls cannot deadlock.                           *)
C25_ResolveCompletes ==
    /\ [](\A t \in Threads : ReturnedTo(t) => HeldBy(t) = {})
    /\ \A t \in Threads : OnArchive(t) ~> ReturnedTo(t)

\* Two calls on an archive whose entries cannot be read have both returned
\* ArchiveRead, the second on the handle the first had opened; no lock is held.
C25_Witness ==
    /\ Len(slots) > 0
    /\ \A m \in DOMAIN lock : lock[m] = 0
    /\ \E t1, t2 \in Threads :
          /\ ReturnedTo(t1) /\ thread[t1].returned.kind = "ArchiveRead" /\ thread[t1].tries = 1
          /\ ReturnedTo(t2) /\ thread[t2].returned.kind = "ArchiveRead" /\ thread[t2].tries = 0

----------------------------------------------------------------------------
(* SpecShadowed: the shadowed_files tool on a client's declared archives: the  *)
(* archives are declared and filled, then shadowed_files is called on them.    *)

\* bin/shadowed_files: parse_datafile, then shadowed_files on its archives.
ShadowedFilesCall ==
    /\ pc = "setup"
    /\ result' = ShadowedFiles(ParseDatafile(zips, [i \in 1..Len(zips) |-> 0]), zips)
    /\ pc' = "shadowed"
    /\ UNCHANGED <<zips, localTree, task, finish_order, batches, local_paths, queue, files, dirs>>
    /\ UNCHANGED nonBuildVars

ShadowedNext ==
    \/ SetupAddArchive
    \/ SetupAddEntry
    \/ ShadowedFilesCall

SpecShadowed == Blank /\ [][ShadowedNext]_vars

(* What the call was given: the pairs of the declared archives in the order    *)
(* they are processed, and for the pair at k the pairs before it with its key. *)

Processed == Flatten(DeclaredBatches)

Earlier(pairs, k) == {j \in 1..(k - 1) : pairs[j].hash = pairs[k].hash}

Latest(set) == CHOOSE j \in set : \A i \in set : i <= j

\* Some pair meets an earlier pair of its key and another conventional path.
Conflicting(pairs) ==
    \E k \in 1..Len(pairs) : \E j \in Earlier(pairs, k) :
        pairs[j].info.conventional_path # pairs[k].info.conventional_path

\* The event of the pair at k, which overrides the latest earlier pair of its key.
OverrideEvent(pairs, k) ==
    [ name |-> pairs[k].info.conventional_path,
      size |-> pairs[k].info.location.compressed_size,
      first_source |-> pairs[Latest(Earlier(pairs, k))].info.location.index + 1,
      second_source |-> pairs[k].info.location.index + 1 ]

\* The events of the first k pairs, in processing order.
RECURSIVE OverrideEvents(_, _)
OverrideEvents(pairs, k) ==
    IF k = 0 THEN <<>>
    ELSE OverrideEvents(pairs, k - 1)
             \o (IF Earlier(pairs, k) # {} THEN <<OverrideEvent(pairs, k)>> ELSE <<>>)

\* Events or error: a Conflict gives the error, otherwise there is one event per
\* overriding pair, in processing order, from the latest provider to the new one.
ReportedAsProcessed(pairs) ==
    IF Conflicting(pairs)
    THEN result.kind = "Err" /\ result.cause.kind = "Conflict"
    ELSE result = [kind |-> "Ok", shadowed |-> OverrideEvents(pairs, Len(pairs))]

NamedEvents(shadowed, name) == Cardinality({k \in 1..Len(shadowed) : shadowed[k].name = name})

ProvidingEntries(pairs, name) ==
    {k \in 1..Len(pairs) : pairs[k].info.conventional_path = name}

ProvidingArchives(pairs, name) ==
    {pairs[k].info.location.index : k \in ProvidingEntries(pairs, name)}

PathsOf(pairs) == {pairs[k].info.conventional_path : k \in 1..Len(pairs)}

(* C34 as stated: one event per overriding entry, in processing order, from    *)
(* the archive that provided the path immediately before to the overriding     *)
(* one, a Conflict giving an error and no events; and a path provided by k     *)
(* archives yields k-1 events.                                                 *)
C34_EventPerArchive ==
    pc = "shadowed" =>
        /\ ReportedAsProcessed(Processed)
        /\ result.kind = "Ok" =>
               \A name \in PathsOf(Processed) :
                   NamedEvents(result.shadowed, name)
                       = Cardinality(ProvidingArchives(Processed, name)) - 1

(* C34  Shadow reporting (amended). shadowed_files returns one event per       *)
(* processed entry that overrides a registered entry of the same canonical     *)
(* path, in processing order, with first_source the archive that provided the  *)
(* path immediately before and second_source the overriding archive, which is  *)
(* the same archive when two of its entries have one canonical path; a path    *)
(* provided by n entries yields n-1 events, which is k-1 for k archives that   *)
(* each provide it once; a Conflict gives an error and no events.              *)
C34_ShadowReporting ==
    pc = "shadowed" =>
        /\ ReportedAsProcessed(Processed)
        /\ result.kind = "Ok" =>
               \A name \in PathsOf(Processed) :
                   /\ NamedEvents(result.shadowed, name)
                          = Cardinality(ProvidingEntries(Processed, name)) - 1
                   /\ Cardinality(ProvidingEntries(Processed, name))
                          = Cardinality(ProvidingArchives(Processed, name))
                      => NamedEvents(result.shadowed, name)
                             = Cardinality(ProvidingArchives(Processed, name)) - 1

\* Three entries of two archives provide one path: the second event names the
\* second archive as the one that provided the path before, not the first.
C34_Witness ==
    /\ pc = "shadowed"
    /\ result.kind = "Ok"
    /\ Len(result.shadowed) = 2
    /\ result.shadowed[1].name = result.shadowed[2].name
    /\ result.shadowed[1].first_source = 1
    /\ result.shadowed[2].first_source = 2

====
